---- MODULE Spec2Model ----
(***************************************************************************)
(* Task lifecycle of the AI code review service.                           *)
(*                                                                         *)
(* State: the `tasks` table (app/models/database.py), the submissions      *)
(* accepted by analyze_pr (app/api/routes/analysis.py) with the position   *)
(* of the orchestrator run each one enqueues (app/tasks/celery_tasks.py),  *)
(* and the last call made on the TaskManager (app/services/                *)
(* task_manager.py).                                                       *)
(*                                                                         *)
(* Every TaskManager call is one database transaction, and one step        *)
(* except in SpecSession.  When the store is unavailable (no session       *)
(* factory, or the transaction raises)                                     *)
(* create_task and update_task_status return False: db_available says      *)
(* whether the store answers.  create_task's lookup and its INSERT are two *)
(* statements, so two submissions served by different processes can both   *)
(* look the id up before either inserts.                                   *)
(*                                                                         *)
(* Spec is the service: submissions and the runs they enqueue, all runs    *)
(* concurrent, the availability of the store fixed at start-up.            *)
(* SpecApi is Spec with the requests that start no run: refused            *)
(* submissions and reads of the results.                                   *)
(* SpecStore is the TaskManager under arbitrary callers: create_task as    *)
(* analyze_pr calls it, update_task_status with arguments drawn from small *)
(* sets, and a store that goes down and comes back at any time.            *)
(* SpecRun is one run of analyze_pr_async in detail: its file units, what  *)
(* the Analysis Engine returns for each, the report it builds and the      *)
(* calls it issues, while the store goes down and comes back.              *)
(* SpecSession is Spec with update_task_status followed statement by       *)
(* statement: the query that loads the row and the commit that writes the  *)
(* changed columns are two steps, and other runs act in between.           *)
(* SpecWorker is the run of SpecRun inside its worker process, the store   *)
(* available, under the hard time limit of the task queue.                 *)
(* SpecWorkflow is one invocation of the multi-stage workflow              *)
(* (app/services/llm_langchain.py), a stage per step, and the flattening   *)
(* of its final state.  SpecListing is one call of get_repo_files          *)
(* (app/services/github.py) on a repository tree.                          *)
(* SpecChunk is one call of chunk_text (app/utils/helpers.py), an          *)
(* iteration of its loop per step.  SpecClassify is one filename through   *)
(* the two _is_analyzable_file, SpecParse one completion response through  *)
(* the two response parsers of LLMService.                                 *)
(*                                                                         *)
(* created_at / updated_at are not modelled.                               *)
(***************************************************************************)
EXTENDS Integers, Sequences, FiniteSets, TLC

(* ---------------------------------------------------------------- bounds *)
MaxSubmissions == 2     \* submissions accepted by analyze_pr
MaxFiles       == 2     \* file units returned by the content provider

(* ------------------------------------------------------- python's None *)
NoPr       == 0         \* pr_number is None (repository scan)
NoProgress == -1        \* progress argument not provided
NoneVal    == "None"    \* message / result / error / github_token is None

(* ------------------------------------------------------ sample inputs *)
Urls   == {"https://github.com/acme/demo"}
Prs    == {NoPr, 7}
Tokens == {NoneVal, "ghp_x"}

\* what a client can send as repo_url: the text up to the owner, and the
\* path segments after it (ssh URLs are not among the sample)
RawUrl(prefix, path) == [prefix |-> prefix, path |-> path]
RawUrls == {RawUrl("https://github.com/", <<"acme", "demo">>),
            RawUrl("https://github.com/", <<"acme">>),
            RawUrl("https://gitlab.com/", <<"acme", "demo">>)}

\* what a client can send as pr_number
RawPrs == Prs \cup {-1}

(* ------------------------------------------------------------- helpers *)
\* PRAnalysisRequest.validate_repo_url
validate_repo_url(raw) ==
    raw.prefix \in {"https://github.com/", "git@github.com:"}

\* PRAnalysisRequest.pr_number: Optional[int], gt=0
pr_number_field(pr_number) == pr_number = NoPr \/ pr_number > 0

\* validate_pr_number
validate_pr_number(pr_number) == pr_number > 0

\* parse_github_url: re.match of 'https://github\.com/([^/]+)/([^/]+)';
\* the owner and the repo as a set of at most one pair (the sample's repo
\* names end in none of the characters rstrip('.git') removes)
parse_github_url(raw) ==
    IF raw.prefix = "https://github.com/" /\ Len(raw.path) >= 2
    THEN {[owner |-> raw.path[1], repo |-> raw.path[2]]}
    ELSE {}

\* sanitize_github_url: the canonical HTTPS form, or None
sanitize_github_url(raw) ==
    IF parse_github_url(raw) = {} THEN NoneVal
    ELSE LET parsed == CHOOSE p \in parse_github_url(raw) : TRUE IN
         "https://github.com/" \o parsed.owner \o "/" \o parsed.repo

\* the status code with which analyze_pr's request is refused (0: it is
\* not): 422 from the request model, 400 from the handler's own checks
RejectCode(raw, pr_number) ==
    IF ~validate_repo_url(raw) \/ ~pr_number_field(pr_number) THEN 422
    ELSE IF pr_number # NoPr /\ ~validate_pr_number(pr_number) THEN 400
    ELSE IF sanitize_github_url(raw) = NoneVal THEN 400
    ELSE 0

\* generate_task_id hashing the same content whatever pr_number is
generate_task_id_ignores_pr(repo_url, pr_number) == <<repo_url, "repo_scan">>

\* generate_task_id: sha256 of "<url>#<pr>" or "<url>#repo_scan", first 16
\* hex digits.  The digest is kept symbolic: the hashed content itself, so
\* two ids are equal exactly when the hashed contents are.
generate_task_id(repo_url, pr_number) ==
    IF pr_number # NoPr
    THEN <<repo_url, ToString(pr_number)>>
    ELSE <<repo_url, "repo_scan">>

\* session.query(Task).filter(Task.id == task_id)
Rows(T, task_id) == {row \in T : row.id = task_id}

\* Task(id=..., status="pending", progress=0, ..., result=None)
NewTask(task_id, repo_url, pr_number, github_token) ==
    [id           |-> task_id,
     status       |-> "pending",
     progress     |-> 0,
     message      |-> NoneVal,
     result       |-> NoneVal,
     error        |-> NoneVal,
     repo_url     |-> repo_url,
     pr_number    |-> pr_number,
     github_token |-> github_token]

\* update_task_status assigning every argument, provided or not
ApplyUpdate_unconditional(row, status, progress, message, result, error) ==
    [row EXCEPT
        !.status   = status,
        !.progress = IF progress # NoProgress THEN progress ELSE 0,
        !.message  = message,
        !.result   = result,
        !.error    = error]

\* update_task_status without its `task.error = error`
ApplyUpdate_no_error(row, status, progress, message, result, error) ==
    [row EXCEPT
        !.status   = status,
        !.progress = IF progress # NoProgress THEN progress ELSE @,
        !.message  = IF message  # NoneVal    THEN message  ELSE @,
        !.result   = IF result   # NoneVal    THEN result   ELSE @]

\* the attribute assignments of update_task_status on one loaded row
ApplyUpdate(row, status, progress, message, result, error) ==
    [row EXCEPT
        !.status   = status,
        !.progress = IF progress # NoProgress THEN progress ELSE @,
        !.message  = IF message  # NoneVal    THEN message  ELSE @,
        !.result   = IF result   # NoneVal    THEN result   ELSE @,
        !.error    = IF error    # NoneVal    THEN error    ELSE @]

\* update_task_status applying the update although the transaction failed
UpdateRet_ignores_store(T, task_id, db_ok) == Rows(T, task_id) # {}

\* return value of update_task_status
UpdateRet(T, task_id, db_ok) == db_ok /\ Rows(T, task_id) # {}

\* table after update_task_status
update_task_status(T, task_id, status, progress, message, result, error, db_ok) ==
    IF ~UpdateRet(T, task_id, db_ok)
    THEN T
    ELSE {IF row.id = task_id
          THEN ApplyUpdate(row, status, progress, message, result, error)
          ELSE row : row \in T}

\* create_task without its check for an existing row
existing_task_unchecked(T, task_id) == FALSE

\* existing_task = session.query(Task).filter(Task.id == task_id).first()
existing_task(T, task_id) == Rows(T, task_id) # {}

\* session.add(new_task); session.commit(): `id` is the primary key of the
\* table, so the INSERT of a second row with the same id raises.
InsertOk(T, new_task, db_ok) == db_ok /\ Rows(T, new_task.id) = {}

session_add_commit(T, new_task, db_ok) ==
    IF InsertOk(T, new_task, db_ok) THEN T \cup {new_task} ELSE T

LoopProgress_position_after(i, n) == 50 + (((i + 1) * 30) \div n)

\* progress = 50 + (i * 30 // len(files_to_analyze))
LoopProgress(i, n) == 50 + ((i * 30) \div n)

(* --------------------------------------------------------------- state *)
VARIABLES
    tasks,              \* rows of the tasks table
    reqs,               \* accepted submissions and their orchestrator runs
    celery_available,   \* CELERY_AVAILABLE, fixed at import
    db_available,       \* the store answers (session factory present, no error)
    last_call,          \* outcome of the last TaskManager call
    run,                \* one orchestrator run with its files and its report
    chunking,           \* one call of chunk_text
    classified,         \* one filename and what the classifiers say of it
    parsing,            \* one completion response and what the parsers return
    response,           \* the last HTTP response of the API
    workflow,           \* one invocation of the multi-stage workflow
    listing             \* one call of get_repo_files on a repository tree

vars == <<tasks, reqs, celery_available, db_available, last_call, run,
          chunking, classified, parsing, response, workflow, listing>>

env == <<celery_available, db_available>>

\* the computations followed on their own, at rest in the service model
offline == <<run, chunking, classified, parsing, workflow, listing>>

NoRun      == [pc |-> "none"]
NoChunking == [pc |-> "none"]
NoClassified == [pc |-> "none"]
NoParsing == [pc |-> "none"]
NoWorkflow == [pc |-> "none"]
NoListing == [pc |-> "none"]

\* an HTTP response: the route that served it, its status code, and of its
\* body the task id, the task status and the report it carries
Response(route, code, task_id, status, result) ==
    [route |-> route, code |-> code, task_id |-> task_id, status |-> status,
     result |-> result]

\* no task id in the body
NoId == <<>>

NoResponse == Response("none", 0, NoId, NoneVal, NoneVal)

\* analyze_pr's AnalysisResponse(task_id=..., status="queued", ...), 202
AnalysisResponse(task_id) ==
    Response("analyze_pr", 202, task_id, "queued", NoneVal)

\* op: "create" or "update" when that call returned in the step, "lookup"
\* when create_task found no row and goes on to its INSERT; found: the
\* call's query returned a row; ret: the value returned (FALSE while there
\* is none); db_ok: the store answered
Outcome(op, found, ret, db_ok) ==
    [op |-> op, found |-> found, ret |-> ret, db_ok |-> db_ok]

\* a submission whose handler has just generated the task id; session is
\* the row its run's open update_task_status has loaded (none: empty)
NewRequest(repo_url, pr_number, github_token) ==
    [repo_url  |-> repo_url,
     pr_number |-> pr_number,
     token     |-> github_token,
     id        |-> generate_task_id(repo_url, pr_number),
     pc        |-> "submitted",
     i         |-> 0,
     n         |-> 0,
     err       |-> NoneVal,
     session   |-> {}]

\* analyze_pr_task.delay(...): the Celery task when Celery is importable,
\* MockCeleryTask's thread otherwise.  Neither reads github_token again, so
\* a request past create_task no longer carries it.
delay == IF celery_available THEN "start" ELSE "mock"

\* the arguments (status, progress, message, result, error) of the
\* update_task_status call issued at each position of a run
Args(status, progress, message, result, error) ==
    [status |-> status, progress |-> progress, message |-> message,
     result |-> result, error |-> error]

UpdateCall(req) ==
    CASE req.pc = "start"    -> Args("processing", 10, "fetching", NoneVal, NoneVal)
      [] req.pc = "p25"      -> Args("processing", 25, "fetched", NoneVal, NoneVal)
      [] req.pc = "p50"      -> Args("processing", 50, "analyzing", NoneVal, NoneVal)
      [] req.pc = "loop" /\ req.i < req.n
                             -> Args("processing", LoopProgress(req.i, req.n),
                                     "file", NoneVal, NoneVal)
      [] req.pc = "loop" /\ req.i >= req.n
                             -> Args("processing", 85, "report", NoneVal, NoneVal)
      [] req.pc = "complete" -> Args("completed", 100, "done", "results", NoneVal)
      [] req.pc = "except"   -> Args("failed", 0, "failed", NoneVal, req.err)
      [] req.pc = "wrapper"  -> Args("failed", 0, "failed", NoneVal, req.err)
      [] req.pc = "mock"     -> Args("completed", 100, "mock_done",
                                     "mock_results", NoneVal)

UpdatePcs == {"start", "p25", "p50", "loop", "complete", "except",
              "wrapper", "mock"}

Init ==
    /\ tasks = {}
    /\ reqs = <<>>
    /\ celery_available \in BOOLEAN
    /\ db_available \in BOOLEAN
    /\ last_call = Outcome("none", FALSE, FALSE, TRUE)
    /\ run = NoRun
    /\ chunking = NoChunking
    /\ classified = NoClassified
    /\ parsing = NoParsing
    /\ workflow = NoWorkflow
    /\ listing = NoListing
    /\ response = NoResponse

(* ------------------------------------------------------------- actions *)
\* analyze_pr for a request that passes validation, up to and including
\* create_task's first statement, the lookup of the generated id.  Found:
\* create_task returns True and analyze_pr goes on to delay().  Exception:
\* it returns False, and analyze_pr goes on to delay() likewise.
Submit ==
    /\ Len(reqs) < MaxSubmissions
    /\ \E raw \in RawUrls, pr_number \in RawPrs, github_token \in Tokens :
         /\ RejectCode(raw, pr_number) = 0
         /\ LET req   == NewRequest(sanitize_github_url(raw), pr_number,
                                    github_token)
                db_ok == db_available
                found == existing_task(tasks, req.id) IN
            /\ reqs' = Append(reqs,
                   IF db_ok /\ ~found
                   THEN [req EXCEPT !.pc = "insert"]
                   ELSE [req EXCEPT !.pc = delay, !.token = NoneVal])
            /\ last_call' = Outcome(
                   IF db_ok /\ ~found THEN "lookup" ELSE "create",
                   db_ok /\ found, db_ok /\ found, db_ok)
            /\ response' = IF db_ok /\ ~found THEN response
                           ELSE AnalysisResponse(req.id)
    /\ UNCHANGED <<tasks, env, offline>>

\* analyze_pr for a request that fails validation: the HTTPException of the
\* request model or of the handler, before generate_task_id
RejectSubmission ==
    /\ \E raw \in RawUrls, pr_number \in RawPrs :
         /\ RejectCode(raw, pr_number) # 0
         /\ response' = Response("analyze_pr", RejectCode(raw, pr_number),
                                 NoId, NoneVal, NoneVal)
    /\ UNCHANGED <<tasks, reqs, env, last_call, offline>>

\* create_task, second statement: add the new row and commit; then
\* analyze_pr calls delay() whatever create_task returned.
CreateInsert(r) ==
    /\ reqs[r].pc = "insert"
    /\ LET new_task == NewTask(reqs[r].id, reqs[r].repo_url,
                            reqs[r].pr_number, reqs[r].token)
           db_ok    == db_available IN
         /\ tasks' = session_add_commit(tasks, new_task, db_ok)
         /\ last_call' = Outcome("create", FALSE,
                                 InsertOk(tasks, new_task, db_ok), db_ok)
    /\ reqs' = [reqs EXCEPT ![r].pc = delay, ![r].token = NoneVal]
    /\ response' = AnalysisResponse(reqs[r].id)
    /\ UNCHANGED <<env, offline>>

\* the call of task_manager.update_task_status run r issues where it stands
DoUpdate(r) ==
    LET c     == UpdateCall(reqs[r])
        db_ok == db_available IN
    /\ tasks' = update_task_status(tasks, reqs[r].id, c.status,
                    c.progress, c.message, c.result, c.error, db_ok)
    /\ last_call' = Outcome("update", UpdateRet(tasks, reqs[r].id, db_ok),
                            UpdateRet(tasks, reqs[r].id, db_ok), db_ok)

\* a worker takes the task off the queue and runs analyze_pr_async:
\* progress 10, then check_pr_exists + get_pull_request_info (PR) or
\* get_repository_info (scan); a falsy answer raises
FetchInfo(r) ==
    /\ reqs[r].pc = "start"
    /\ DoUpdate(r)
    /\ \E e \in {NoneVal, "info_failed"}
              \cup (IF reqs[r].pr_number # NoPr THEN {"pr_not_found"} ELSE {}) :
         reqs' = [reqs EXCEPT
            ![r].pc  = IF e = NoneVal THEN "p25" ELSE "except",
            ![r].err = e]
    /\ UNCHANGED <<env, offline, response>>

\* progress 25, then get_pr_files / get_repo_files; an empty list raises
FetchFiles(r) ==
    /\ reqs[r].pc = "p25"
    /\ DoUpdate(r)
    /\ \E n \in 0..MaxFiles :
         reqs' = [reqs EXCEPT
            ![r].pc  = IF n = 0 THEN "except" ELSE "p50",
            ![r].err = IF n = 0 THEN "no_files" ELSE NoneVal,
            ![r].n   = n]
    /\ UNCHANGED <<env, offline, response>>

\* progress 50 before the loop
StartAnalysis(r) ==
    /\ reqs[r].pc = "p50"
    /\ DoUpdate(r)
    /\ reqs' = [reqs EXCEPT ![r].pc = "loop", ![r].i = 0]
    /\ UNCHANGED <<env, offline, response>>

\* one loop iteration: the progress update of file i, then its analysis,
\* which either ends the iteration or raises out of the loop
AnalyzeFile(r) ==
    /\ reqs[r].pc = "loop"
    /\ reqs[r].i < reqs[r].n
    /\ DoUpdate(r)
    /\ \E raised \in BOOLEAN :
         reqs' = [reqs EXCEPT
            ![r].pc  = IF raised THEN "except" ELSE "loop",
            ![r].err = IF raised THEN "analysis_error" ELSE NoneVal,
            ![r].i   = IF raised THEN 0 ELSE @ + 1,
            ![r].n   = IF raised THEN 0 ELSE @]
    /\ UNCHANGED <<env, offline, response>>

\* progress 85 after the loop; the report is built
GenerateReport(r) ==
    /\ reqs[r].pc = "loop"
    /\ reqs[r].i = reqs[r].n
    /\ DoUpdate(r)
    /\ reqs' = [reqs EXCEPT ![r].pc = "complete", ![r].i = 0, ![r].n = 0]
    /\ UNCHANGED <<env, offline, response>>

\* status completed, progress 100, result = the report; return
CompleteTask(r) ==
    /\ reqs[r].pc = "complete"
    /\ DoUpdate(r)
    /\ reqs' = [reqs EXCEPT ![r].pc = "done"]
    /\ UNCHANGED <<env, offline, response>>

\* except Exception in analyze_pr_async: failed, progress 0, error; raise
HandleException(r) ==
    /\ reqs[r].pc = "except"
    /\ DoUpdate(r)
    /\ reqs' = [reqs EXCEPT ![r].pc = "wrapper"]
    /\ UNCHANGED <<env, offline, response>>

\* except Exception in analyze_pr_task: failed, progress 0, error; raise
TaskFailed(r) ==
    /\ reqs[r].pc = "wrapper"
    /\ DoUpdate(r)
    /\ reqs' = [reqs EXCEPT ![r].pc = "done", ![r].err = NoneVal]
    /\ UNCHANGED <<env, offline, response>>

\* MockCeleryTask.delay's thread: completed, progress 100, canned results
MockProcess(r) ==
    /\ reqs[r].pc = "mock"
    /\ DoUpdate(r)
    /\ reqs' = [reqs EXCEPT ![r].pc = "done"]
    /\ UNCHANGED <<env, offline, response>>

\* TaskManager.get_task_status: the row as a set of at most one element
get_task_status(T, task_id, db_ok) == IF db_ok THEN Rows(T, task_id) ELSE {}

\* TaskManager.get_task_results: None (the empty set), the status alone
\* of a task that is not completed, else the status and the result
get_task_results(T, task_id, db_ok) ==
    {[status |-> task_info.status,
      result |-> IF task_info.status # "completed" THEN NoneVal
                 ELSE task_info.result] :
        task_info \in get_task_status(T, task_id, db_ok)}

\* status.get_analysis_results: GET /results/{task_id}
get_analysis_results(T, task_id, db_ok) ==
    LET found == get_task_results(T, task_id, db_ok) IN
    IF found = {}
    THEN Response("results", 404, task_id, NoneVal, NoneVal)
    ELSE LET results == CHOOSE x \in found : TRUE IN
         IF results.status # "completed"
         THEN Response("results", 202, task_id, results.status, NoneVal)
         ELSE Response("results", 200, task_id, results.status,
                       results.result)

\* results.get_results: GET /results/{task_id}
get_results(T, task_id, db_ok) ==
    LET found == get_task_status(T, task_id, db_ok) IN
    IF found = {}
    THEN Response("results", 404, task_id, NoneVal, NoneVal)
    ELSE LET task_data == CHOOSE x \in found : TRUE IN
         IF task_data.status # "completed"
         THEN Response("results", 400, task_id, task_data.status, NoneVal)
         ELSE Response("results", 200, task_id, task_data.status,
                       task_data.result)

\* create_app: the routers in the order of their include_router calls; both
\* declare GET /results/{task_id}, and a request goes to the first route
\* that matches it
ResultsRouters == <<"status", "results">>

serve_results(T, task_id, db_ok) ==
    IF Head(ResultsRouters) = "status"
    THEN get_analysis_results(T, task_id, db_ok)
    ELSE get_results(T, task_id, db_ok)

\* a client asks for the results of a task
GetResults ==
    /\ \E repo_url \in Urls, pr_number \in Prs :
         response' = serve_results(tasks, generate_task_id(repo_url, pr_number),
                                   db_available)
    /\ UNCHANGED <<tasks, reqs, env, last_call, offline>>

Next ==
    \/ Submit
    \/ \E r \in DOMAIN reqs : CreateInsert(r)
    \/ \E r \in DOMAIN reqs : FetchInfo(r)
    \/ \E r \in DOMAIN reqs : FetchFiles(r)
    \/ \E r \in DOMAIN reqs : StartAnalysis(r)
    \/ \E r \in DOMAIN reqs : AnalyzeFile(r)
    \/ \E r \in DOMAIN reqs : GenerateReport(r)
    \/ \E r \in DOMAIN reqs : CompleteTask(r)
    \/ \E r \in DOMAIN reqs : HandleException(r)
    \/ \E r \in DOMAIN reqs : TaskFailed(r)
    \/ \E r \in DOMAIN reqs : MockProcess(r)

Spec == Init /\ [][Next]_vars

\* the service with the requests that start no run: the submissions
\* analyze_pr refuses and the clients' reads of the results
NextApi ==
    \/ Next
    \/ RejectSubmission
    \/ GetResults

SpecApi == Init /\ [][NextApi]_vars

(* ------------------------- update_task_status, statement by statement *)
\* session.commit() of update_task_status: the session's unit of work
\* emits UPDATE tasks SET <the columns whose assigned value differs from
\* the loaded one> WHERE id = ..., and the statement acts on the row as it
\* is in the table when it executes
session_commit(T, loaded, assigned) ==
    {IF row.id # loaded.id THEN row
     ELSE [row EXCEPT
        !.status   = IF assigned.status   # loaded.status
                     THEN assigned.status   ELSE @,
        !.progress = IF assigned.progress # loaded.progress
                     THEN assigned.progress ELSE @,
        !.message  = IF assigned.message  # loaded.message
                     THEN assigned.message  ELSE @,
        !.result   = IF assigned.result   # loaded.result
                     THEN assigned.result   ELSE @,
        !.error    = IF assigned.error    # loaded.error
                     THEN assigned.error    ELSE @] : row \in T}

\* where a run stands once the update_task_status call of its position has
\* returned: the positions FetchInfo .. MockProcess lead to
Returned(req) ==
    CASE req.pc = "start" ->
            {[req EXCEPT !.pc  = IF e = NoneVal THEN "p25" ELSE "except",
                         !.err = e] :
                e \in {NoneVal, "info_failed"}
                      \cup (IF req.pr_number # NoPr THEN {"pr_not_found"}
                            ELSE {})}
      [] req.pc = "p25" ->
            {[req EXCEPT !.pc  = IF n = 0 THEN "except" ELSE "p50",
                         !.err = IF n = 0 THEN "no_files" ELSE NoneVal,
                         !.n   = n] : n \in 0..MaxFiles}
      [] req.pc = "p50" -> {[req EXCEPT !.pc = "loop", !.i = 0]}
      [] req.pc = "loop" /\ req.i < req.n ->
            {[req EXCEPT !.pc  = IF raised THEN "except" ELSE "loop",
                         !.err = IF raised THEN "analysis_error" ELSE NoneVal,
                         !.i   = IF raised THEN 0 ELSE @ + 1,
                         !.n   = IF raised THEN 0 ELSE @] :
                raised \in BOOLEAN}
      [] req.pc = "loop" /\ req.i >= req.n ->
            {[req EXCEPT !.pc = "complete", !.i = 0, !.n = 0]}
      [] req.pc = "complete" -> {[req EXCEPT !.pc = "done"]}
      [] req.pc = "except"   -> {[req EXCEPT !.pc = "wrapper"]}
      [] req.pc = "wrapper"  -> {[req EXCEPT !.pc = "done", !.err = NoneVal]}
      [] req.pc = "mock"     -> {[req EXCEPT !.pc = "done"]}

\* task = session.query(Task).filter(Task.id == task_id).first() of the
\* update run r issues where it stands, a row being found
SessionQuery(r) ==
    /\ reqs[r].pc \in UpdatePcs
    /\ reqs[r].session = {}
    /\ UpdateRet(tasks, reqs[r].id, db_available)
    /\ reqs' = [reqs EXCEPT ![r].session = Rows(tasks, reqs[r].id)]
    /\ UNCHANGED <<tasks, env, last_call, offline, response>>

\* the attribute assignments on the loaded row and session.commit(); the
\* call returns True and the run goes on
SessionCommit(r) ==
    /\ reqs[r].pc \in UpdatePcs
    /\ reqs[r].session # {}
    /\ LET task == CHOOSE row \in reqs[r].session : TRUE
           c    == UpdateCall(reqs[r]) IN
         tasks' = session_commit(tasks, task,
                      ApplyUpdate(task, c.status, c.progress, c.message,
                                  c.result, c.error))
    /\ last_call' = Outcome("update", TRUE, TRUE, TRUE)
    /\ \E req \in Returned(reqs[r]) :
         reqs' = [reqs EXCEPT ![r] = [req EXCEPT !.session = {}]]
    /\ UNCHANGED <<env, offline, response>>

\* the call returns False: no session factory, the query raises, or it
\* finds no row; the run goes on
SessionRefused(r) ==
    /\ reqs[r].pc \in UpdatePcs
    /\ reqs[r].session = {}
    /\ ~UpdateRet(tasks, reqs[r].id, db_available)
    /\ last_call' = Outcome("update", FALSE, FALSE, db_available)
    /\ \E req \in Returned(reqs[r]) : reqs' = [reqs EXCEPT ![r] = req]
    /\ UNCHANGED <<tasks, env, offline, response>>

NextSession ==
    \/ Submit
    \/ \E r \in DOMAIN reqs : CreateInsert(r)
    \/ \E r \in DOMAIN reqs : SessionQuery(r)
    \/ \E r \in DOMAIN reqs : SessionCommit(r)
    \/ \E r \in DOMAIN reqs : SessionRefused(r)

SpecSession == Init /\ [][NextSession]_vars

(* ------------------------------------- the TaskManager under any caller *)
Statuses   == {"processing", "completed", "failed"}
Progresses == {NoProgress, 50}
Messages   == {NoneVal, "msg"}
Results    == {NoneVal, "results"}
Errors     == {NoneVal, "boom"}

\* the tables create_task can have built: for any set of submitted
\* (repo_url, pr_number), the row of each as create_task inserts it (the
\* PR submissions with a token, the repository scans without)
CreatedTables ==
    {{NewTask(generate_task_id(k[1], k[2]), k[1], k[2],
              IF k[2] # NoPr THEN "ghp_x" ELSE NoneVal) : k \in S} :
        S \in SUBSET (Urls \X Prs)}

InitStore ==
    /\ tasks \in CreatedTables
    /\ reqs = <<>>
    /\ celery_available = TRUE
    /\ db_available \in BOOLEAN
    /\ last_call = Outcome("none", FALSE, FALSE, TRUE)
    /\ run = NoRun
    /\ chunking = NoChunking
    /\ classified = NoClassified
    /\ parsing = NoParsing
    /\ workflow = NoWorkflow
    /\ listing = NoListing
    /\ response = NoResponse

\* the store goes down, or comes back
StoreFlips ==
    /\ db_available' = ~db_available
    /\ UNCHANGED <<tasks, reqs, celery_available, last_call, offline, response>>

\* one call update_task_status(task_id, status, progress, message, result,
\* error) while the store is in the state db_available
update_call(task_id, status, progress, message, result, error) ==
    /\ tasks' = update_task_status(tasks, task_id, status, progress,
                    message, result, error, db_available)
    /\ last_call' = Outcome("update",
                        UpdateRet(tasks, task_id, db_available),
                        UpdateRet(tasks, task_id, db_available), db_available)
    /\ UNCHANGED <<reqs, env, offline, response>>

\* update_task_status called with any arguments on any task id
ClientUpdate ==
    \E repo_url \in Urls, pr_number \in Prs, status \in Statuses,
       progress \in Progresses, message \in Messages,
       result \in Results, error \in Errors :
         update_call(generate_task_id(repo_url, pr_number), status,
                     progress, message, result, error)

NextStore ==
    \/ ClientUpdate
    \/ StoreFlips

SpecStore == InitStore /\ [][NextStore]_vars

(* -------------------------------------- the Analysis Engine, per file unit *)
\* an item of an `issues` or `findings` list: a dict with its "type" and
\* "severity" keys (NoneVal: key absent), or something that is not a dict
Item(type, severity) == [type |-> type, severity |-> severity, is_dict |-> TRUE]
NotADict == [type |-> NoneVal, severity |-> NoneVal, is_dict |-> FALSE]

SampleItems == {Item("security", NoneVal), Item("style", "high"),
                Item("style", "low")}
ListLens    == {0, 1, 2}
ItemLists   == UNION {[1..n -> SampleItems] : n \in ListLens}

\* what the completion capability does when called for a unit: it answers a
\* JSON object with an `issues` list or with a `findings` list, a JSON
\* object whose issues are not objects, a text that is no JSON, or it times
\* out or cannot be reached
Answer(kind, list) == [kind |-> kind, list |-> list]
Completions ==
    {Answer("issues", l) : l \in ItemLists}
    \cup {Answer("findings", l) : l \in ItemLists \ {<<>>}}
    \cup {Answer("bad_shape", <<NotADict>>), Answer("text", <<>>),
          Answer("timeout", <<>>), Answer("connect_error", <<>>)}

\* an analysis result as the orchestrator reads it: result.get('issues') and
\* result.get('findings'), an absent key read as the empty list
Analysis(issues, findings) == [issues |-> issues, findings |-> findings]

\* LLMService._create_error_response / LangChainLLMService._fallback_analysis
\* one issue of type system, severity low
ErrorResponse == Analysis(<<Item("system", "low")>>, <<>>)

\* LLMService._get_mock_analysis_response: five security issues and a
\* style issue
MockResponse ==
    Analysis([k \in 1..6 |-> Item(IF k <= 5 THEN "security" ELSE "style",
                                  NoneVal)], <<>>)

\* LLMService._parse_simple_response's text fallback
TextResponse == Analysis(<<Item("general", "medium")>>, <<>>)

\* LangChainLLMService._format_analysis_result on one stage's issues
FormatStage(stage, list) ==
    [k \in 1..Len(list) |->
        Item(stage, IF list[k].is_dict /\ list[k].severity # NoneVal
                    THEN list[k].severity ELSE "medium")]

\* the workflow of LangChainLLMService.analyze_code_diff when the
\* completion capability behaves as `c` in each of its stages: a stage whose
\* call raises or answers no `issues` contributes nothing
format_analysis_result(c) ==
    LET list == IF c.kind \in {"issues", "bad_shape"} THEN c.list ELSE <<>> IN
    Analysis(FormatStage("initial", list) \o FormatStage("security", list)
             \o FormatStage("performance", list)
             \o FormatStage("quality", list), <<>>)

\* how analyze_code_diff is served: by the LangGraph workflow, by
\* LangChainLLMService without its libraries, or by LLMService's own
\* fallback implementation
Engines == {"langgraph", "langchain_fallback", "basic"}

\* LLMService.analyze_code_diff (diff mode)
analyze_code_diff(engine, c) ==
    CASE engine = "langgraph"          -> format_analysis_result(c)
      [] engine = "langchain_fallback" -> ErrorResponse
      [] engine = "basic" ->
            CASE c.kind \in {"issues", "bad_shape"} -> Analysis(c.list, <<>>)
              [] c.kind = "findings"                -> Analysis(<<>>, <<>>)
              [] c.kind = "text"                    -> TextResponse
              [] c.kind \in {"timeout", "connect_error"} -> ErrorResponse

\* settings.DEFAULT_LLM_PROVIDER
Providers == {"local", "ollama"}

\* LLMService.analyze_file_content (full-file mode) on a content of at
\* most 8000 characters (a file, or a chunk of a larger file)
analyze_file_content(provider, c) ==
    CASE c.kind \in {"issues", "bad_shape"} -> Analysis(c.list, <<>>)
      [] c.kind = "findings"                -> Analysis(<<>>, c.list)
      [] c.kind = "text"                    -> Analysis(<<>>, <<>>)
      [] c.kind = "timeout"                 -> Analysis(<<>>, <<>>)
      [] c.kind = "connect_error" ->
            IF provider = "local" THEN MockResponse ELSE Analysis(<<>>, <<>>)

\* what the completion capability does for the chunks of a file of more
\* than 8000 characters: a sample of answers for a file of two chunks
ChunkAnswers ==
    {Answer("issues", <<Item("security", NoneVal)>>),
     Answer("findings", <<Item("style", "high")>>),
     Answer("findings", <<Item("style", "low")>>),
     Answer("timeout", <<>>)}
LargeCompletions == {[kind |-> "chunks", list |-> cs] : cs \in [1..2 -> ChunkAnswers]}

\* all_findings after the loop of _analyze_large_file over the first n
\* chunks: each chunk goes through analyze_file_content, and what its result
\* holds under "findings" is appended
RECURSIVE all_findings(_, _, _)
all_findings(provider, cs, n) ==
    IF n = 0 THEN <<>>
    ELSE all_findings(provider, cs, n - 1)
         \o analyze_file_content(provider, cs[n]).findings

\* LLMService._analyze_large_file: the result has a "findings" key and no
\* "issues" key
analyze_large_file(provider, cs) ==
    Analysis(<<>>, all_findings(provider, cs, Len(cs)))

(* ------------------------------------------ one orchestrator run in detail *)
\* a file unit of the content provider's listing: a file that
\* _is_analyzable_file rejects ("binary"), a file without patch (PR) or
\* without content (scan) ("unchanged"), or a file that is analysed, with
\* what the completion capability does for it ("code"); in a scan, a file
\* of more than 8000 characters that is analysed, with what the completion
\* capability does for each of its chunks ("large")
Unit(kind, completion) == [kind |-> kind, completion |-> completion]
Units ==
    {Unit("binary", Answer("none", <<>>)), Unit("unchanged", Answer("none", <<>>))}
    \cup {Unit("code", c) : c \in Completions}

LargeUnits == {Unit("large", c) : c \in LargeCompletions}

FileLists == UNION {[1..n -> Units] : n \in 1..MaxFiles}

\* the listings of a scan: its files are analysed by content, whose length
\* matters; a PR's files are analysed by patch
ScanFileLists == UNION {[1..n -> Units \cup LargeUnits] : n \in 1..MaxFiles}

\* the runs followed: a PR under each engine, a scan under each provider
Configs ==
    {[pr_number |-> 7, engine |-> e, provider |-> "ollama"] : e \in Engines}
    \cup {[pr_number |-> NoPr, engine |-> "basic", provider |-> p] :
             p \in Providers}

\* analysis_result of the unit (lines 228-277)
analysis_result(cfg, unit) ==
    IF cfg.pr_number # NoPr
    THEN analyze_code_diff(cfg.engine, unit.completion)
    ELSE IF unit.kind = "large"
         THEN analyze_large_file(cfg.provider, unit.completion.list)
         ELSE analyze_file_content(cfg.provider, unit.completion)

\* the unit is run through the Analysis Engine (it is not skipped by the
\* `continue`s of lines 223-224, 230-231, 261-262)
Analysed(unit) == unit.kind \in {"code", "large"}

unit_calls_every_unit(cfg, unit, name) ==
    << <<"get_file_content", name>>,
       <<IF cfg.pr_number # NoPr THEN "analyze_code_diff"
         ELSE "analyze_file_content", name>> >>

\* the calls of the iteration on the content provider and on the engine
unit_calls(cfg, unit, name) ==
    CASE unit.kind = "binary"    -> <<>>
      [] unit.kind = "unchanged" ->
            IF cfg.pr_number # NoPr THEN <<>>
            ELSE << <<"get_file_content", name>> >>
      [] unit.kind \in {"code", "large"} ->
            << <<"get_file_content", name>>,
               <<IF cfg.pr_number # NoPr THEN "analyze_code_diff"
                 ELSE "analyze_file_content", name>> >>

\* lines 279-292: the issues read from the result, the findings converted
\* when there are no issues
convert_findings(findings) ==
    [k \in 1..Len(findings) |->
        Item(IF findings[k].type # NoneVal THEN findings[k].type
             ELSE "code_quality", NoneVal)]

result_issues(result) ==
    IF result.issues # <<>> THEN result.issues
    ELSE convert_findings(result.findings)

\* finding.get / issue.get on an item that is not a dict raises
\* AttributeError (lines 287, 301)
item_raises(result) ==
    LET list == IF result.issues # <<>> THEN result.issues
                ELSE result.findings IN
    \E k \in 1..Len(list) : ~list[k].is_dict

\* lines 300-302
is_critical(issue) ==
    \/ issue.severity \in {"critical", "high"}
    \/ issue.type \in {"security", "bug"}

count_critical(issues) ==
    Cardinality({k \in 1..Len(issues) : is_critical(issues[k])})

\* total_issues += len(issues) counting the record, not its issues
total_after_per_file(total_issues, issues) == total_issues + 1

\* total_issues += len(issues)
total_after(total_issues, issues) == total_issues + Len(issues)

\* the locals of the loop after the iteration over `unit` (lines 279-302):
\* a record is appended only when the result has issues or findings
after_unit(acc, cfg, unit, name) ==
    LET result == analysis_result(cfg, unit)
        issues == result_issues(result) IN
    IF Analysed(unit) /\ (result.issues # <<>> \/ result.findings # <<>>)
    THEN [analyzed_files  |-> Append(acc.analyzed_files,
                                  [name |-> name, issues |-> issues]),
          total_issues    |-> total_after(acc.total_issues, issues),
          critical_issues |-> acc.critical_issues + count_critical(issues)]
    ELSE acc

unit_raises(cfg, unit) ==
    Analysed(unit) /\ item_raises(analysis_result(cfg, unit))

\* results = {"files": ..., "summary": {...}} (lines 310-317; pr_info, copied
\* from the content provider's answer, is left out)
build_results(acc) ==
    [files   |-> acc.analyzed_files,
     summary |-> [total_files     |-> Len(acc.analyzed_files),
                  total_issues    |-> acc.total_issues,
                  critical_issues |-> acc.critical_issues]]

NoAcc == [analyzed_files |-> <<>>, total_issues |-> 0, critical_issues |-> 0]

NoReport == build_results(NoAcc)

\* the locals after the loop has gone over the first n units (lines 214-302)
RECURSIVE run_loop(_, _, _)
run_loop(cfg, files, n) ==
    IF n = 0 THEN NoAcc
    ELSE after_unit(run_loop(cfg, files, n - 1), cfg, files[n], n)

\* the calls of the loop over the first n units, in order
RECURSIVE loop_calls(_, _, _)
loop_calls(cfg, files, n) ==
    IF n = 0 THEN <<>>
    ELSE loop_calls(cfg, files, n - 1) \o unit_calls(cfg, files[n], n)

\* a failed update raising into the run
update_raises_on_failure(ret) == ~ret

\* `await task_manager.update_task_status(...)`: the value returned is
\* dropped and update_task_status catches what the store raises
update_raises(ret) == FALSE

\* analyze_pr_async(task_id, repo_url, pr_number) has been taken off the
\* queue; the task's row is there as create_task inserted it, or is missing
InitRun ==
    /\ reqs = <<>>
    /\ celery_available = TRUE
    /\ db_available \in BOOLEAN
    /\ last_call = Outcome("none", FALSE, FALSE, TRUE)
    /\ chunking = NoChunking
    /\ classified = NoClassified
    /\ parsing = NoParsing
    /\ workflow = NoWorkflow
    /\ listing = NoListing
    /\ response = NoResponse
    /\ \E repo_url \in Urls, cfg \in Configs, created \in BOOLEAN :
         LET task_id == generate_task_id(repo_url, cfg.pr_number) IN
         /\ tasks = IF created
                    THEN {NewTask(task_id, repo_url, cfg.pr_number, NoneVal)}
                    ELSE {}
         /\ run = [pc |-> "start", id |-> task_id, cfg |-> cfg,
                   files |-> <<>>, i |-> 0, acc |-> NoAcc, calls |-> <<>>,
                   err |-> NoneVal, report |-> NoReport, updates |-> <<>>]

\* the update_task_status call the run issues where it stands
RunUpdate ==
    LET c   == UpdateCall([pc |-> run.pc, i |-> run.i, n |-> Len(run.files),
                           err |-> run.err])
        ret == UpdateRet(tasks, run.id, db_available) IN
    /\ tasks' = update_task_status(tasks, run.id, c.status, c.progress,
                    c.message, c.result, c.error, db_available)
    /\ last_call' = Outcome("update", ret, ret, db_available)

\* that call raises into the run
UpdateRaised == update_raises(UpdateRet(tasks, run.id, db_available))

\* the (status, progress) of that call, after those issued before it
Issued(r) ==
    LET c == UpdateCall([pc |-> run.pc, i |-> run.i, n |-> Len(run.files),
                         err |-> run.err]) IN
    [r EXCEPT !.updates = Append(run.updates, <<c.status, c.progress>>)]

\* the run after the call: in the handler if the call raised, else as `next`
RunGoes(next) ==
    run' = Issued(IF UpdateRaised
                  THEN [run EXCEPT !.pc = "except", !.err = "update_failed"]
                  ELSE next)

\* raise Exception(...) inside the try block
Raise(e) == [run EXCEPT !.pc = "except", !.err = e]

info_calls_unchecked(pr_number, pr_exists) ==
    IF pr_number = NoPr THEN << <<"get_info", 0>> >>
    ELSE << <<"check_pr_exists", 0>>, <<"get_info", 0>> >>

\* the content-provider calls of the metadata fetch: get_repository_info
\* (scan), or check_pr_exists and, when it answers True,
\* get_pull_request_info (PR)
info_calls(pr_number, pr_exists) ==
    IF pr_number = NoPr THEN << <<"get_info", 0>> >>
    ELSE IF pr_exists
         THEN << <<"check_pr_exists", 0>>, <<"get_info", 0>> >>
         ELSE << <<"check_pr_exists", 0>> >>

\* the content-provider calls of a fetch phase that succeeds
fetch_calls(pr_number) ==
    info_calls(pr_number, TRUE) \o << <<"get_files", 0>> >>

\* progress 10, then check_pr_exists and get_pull_request_info (PR) or
\* get_repository_info (scan); a falsy answer raises
RunFetchInfo ==
    /\ run.pc = "start"
    /\ RunUpdate
    /\ \E e \in {NoneVal, "info_failed"}
              \cup (IF run.cfg.pr_number # NoPr THEN {"pr_not_found"} ELSE {}) :
         LET called == [run EXCEPT !.calls = @ \o
                           info_calls(run.cfg.pr_number, e # "pr_not_found")] IN
         RunGoes(IF e = NoneVal THEN [called EXCEPT !.pc = "p25"]
                 ELSE [called EXCEPT !.pc = "except", !.err = e])
    /\ UNCHANGED <<reqs, env, chunking, classified, parsing, response, workflow,
                 listing>>

\* progress 25, then get_pr_files / get_repo_files; an empty list raises
RunFetchFiles ==
    /\ run.pc = "p25"
    /\ RunUpdate
    /\ \E files \in (IF run.cfg.pr_number # NoPr THEN FileLists
                      ELSE ScanFileLists) \cup {<<>>} :
         LET called == [run EXCEPT !.calls = Append(@, <<"get_files", 0>>)] IN
         RunGoes(IF files = <<>>
                 THEN [called EXCEPT !.pc = "except", !.err = "no_files"]
                 ELSE [called EXCEPT !.pc = "p50", !.files = files])
    /\ UNCHANGED <<reqs, env, chunking, classified, parsing, response, workflow,
                 listing>>

\* progress 50; analyzed_files = [], total_issues = 0, critical_issues = 0
RunStartAnalysis ==
    /\ run.pc = "p50"
    /\ RunUpdate
    /\ RunGoes([run EXCEPT !.pc = "loop", !.i = 0, !.acc = NoAcc])
    /\ UNCHANGED <<reqs, env, chunking, classified, parsing, response, workflow,
                 listing>>

\* one iteration of the loop over files_to_analyze: the progress update,
\* the calls for the unit, and the record appended for it; an item of the
\* result that is no dict raises out of the loop
RunAnalyzeFile ==
    /\ run.pc = "loop"
    /\ run.i < Len(run.files)
    /\ RunUpdate
    /\ LET name   == run.i + 1
           unit   == run.files[name]
           called == [run EXCEPT
                         !.calls = @ \o unit_calls(run.cfg, unit, name)] IN
       RunGoes(IF unit_raises(run.cfg, unit)
               THEN [called EXCEPT !.pc = "except", !.err = "AttributeError"]
               ELSE [called EXCEPT
                        !.i   = name,
                        !.acc = after_unit(run.acc, run.cfg, unit, name)])
    /\ UNCHANGED <<reqs, env, chunking, classified, parsing, response, workflow,
                 listing>>

\* progress 85 after the loop; results is built
RunGenerateReport ==
    /\ run.pc = "loop"
    /\ run.i = Len(run.files)
    /\ RunUpdate
    /\ RunGoes([run EXCEPT !.pc = "complete",
                           !.report = build_results(run.acc)])
    /\ UNCHANGED <<reqs, env, chunking, classified, parsing, response, workflow,
                 listing>>

\* status completed, progress 100, result = results; return results
RunCompleteTask ==
    /\ run.pc = "complete"
    /\ RunUpdate
    /\ RunGoes([run EXCEPT !.pc = "done"])
    /\ UNCHANGED <<reqs, env, chunking, classified, parsing, response, workflow,
                 listing>>

\* except Exception in analyze_pr_async: failed, progress 0, error; raise
RunHandleException ==
    /\ run.pc = "except"
    /\ RunUpdate
    /\ run' = Issued([run EXCEPT !.pc = "wrapper"])
    /\ UNCHANGED <<reqs, env, chunking, classified, parsing, response, workflow,
                 listing>>

\* except Exception in analyze_pr_task: failed, progress 0, error; raise to
\* the task queue
RunTaskFailed ==
    /\ run.pc = "wrapper"
    /\ RunUpdate
    /\ run' = Issued([run EXCEPT !.pc = "raised"])
    /\ UNCHANGED <<reqs, env, chunking, classified, parsing, response, workflow,
                 listing>>

\* the store goes down, or comes back, while the run is under way
RunStoreFlips ==
    /\ run.pc \notin {"done", "raised"}
    /\ db_available' = ~db_available
    /\ UNCHANGED <<tasks, reqs, celery_available, last_call, run, chunking,
                 classified, parsing, response, workflow,
                 listing>>

NextRun ==
    \/ RunFetchInfo
    \/ RunFetchFiles
    \/ RunStartAnalysis
    \/ RunAnalyzeFile
    \/ RunGenerateReport
    \/ RunCompleteTask
    \/ RunHandleException
    \/ RunTaskFailed
    \/ RunStoreFlips

SpecRun == InitRun /\ [][NextRun]_vars

(* ------------------------------------------------ chunk_text on its own *)
MaxChunks == 6          \* chunks of a call that are kept for inspection

NewlineWindow == 100    \* newline_pos > start + chunk_size - 100
SpaceWindow   == 50     \* space_pos > start + chunk_size - 50

\* sample arguments: texts of a few lengths with at most one newline and one
\* space, chunk sizes below and above the two windows, overlaps below, at
\* and above the chunk sizes
TextLens     == {3, 4, 130}
NewlinePos   == {-1, 1, 21, 115}
SpacePos     == {-1, 2, 100}
ChunkSizes   == {2, 3, 120}
Overlaps     == {0, 1, 2, 30, 120, 200}

\* the character at index k of a text without newline or space there
Chr(k) == <<"0", "1", "2", "3", "4", "5", "6", "7", "8", "9">>[(k % 10) + 1]

\* the text of length n with a newline at index nl and a space at index sp
\* (python's indices, from 0; -1: none)
MkText(n, nl, sp) ==
    [k \in 1..n |-> IF k - 1 = nl THEN "\n"
                    ELSE IF k - 1 = sp THEN " " ELSE Chr(k - 1)]

Texts == {MkText(n, nl, sp) : n \in TextLens, nl \in NewlinePos, sp \in SpacePos}

\* python's treatment of a slice index x on a string of length L
Adj(x, L) ==
    IF x < 0 THEN (IF x + L < 0 THEN 0 ELSE x + L)
    ELSE (IF x > L THEN L ELSE x)

\* text[a:b]
Slice(text, a, b) ==
    SubSeq(text, Adj(a, Len(text)) + 1, Adj(b, Len(text)))

\* text.rfind(ch, a, b): the highest index in text[a:b] holding ch, or -1
rfind(text, ch, a, b) ==
    LET S == {k \in Adj(a, Len(text)) .. (Adj(b, Len(text)) - 1) :
                 text[k + 1] = ch} IN
    IF S = {} THEN -1 ELSE CHOOSE k \in S : \A j \in S : j <= k

\* `end` as one iteration of the while loop computes it from `start`
ChunkEnd(text, chunk_size, start) ==
    LET end         == start + chunk_size
        newline_pos == rfind(text, "\n", start, end)
        space_pos   == rfind(text, " ", start, end) IN
    IF end < Len(text)
    THEN IF newline_pos > start + chunk_size - NewlineWindow
         THEN newline_pos
         ELSE IF space_pos > start + chunk_size - SpaceWindow
              THEN space_pos
              ELSE end
    ELSE end

\* chunk_text(text, chunk_size, overlap) has been called
InitChunk ==
    /\ tasks = {}
    /\ reqs = <<>>
    /\ celery_available = TRUE
    /\ db_available = TRUE
    /\ last_call = Outcome("none", FALSE, FALSE, TRUE)
    /\ run = NoRun
    /\ classified = NoClassified
    /\ parsing = NoParsing
    /\ workflow = NoWorkflow
    /\ listing = NoListing
    /\ response = NoResponse
    /\ \E text \in Texts, chunk_size \in ChunkSizes, overlap \in Overlaps :
         chunking = [pc |-> "call", text |-> text, chunk_size |-> chunk_size,
                     overlap |-> overlap, start |-> 0, chunks |-> <<>>,
                     n_chunks |-> 0, odd |-> FALSE]

\* if len(text) <= chunk_size: return [text]; else chunks = [], start = 0
\* and the loop is entered (0 < len(text))
ChunkEnter ==
    /\ chunking.pc = "call"
    /\ chunking' =
         IF Len(chunking.text) <= chunking.chunk_size
         THEN [chunking EXCEPT !.pc = "done", !.chunks = <<chunking.text>>,
                               !.n_chunks = 1]
         ELSE [chunking EXCEPT !.pc = "loop"]
    /\ UNCHANGED <<tasks, reqs, env, last_call, run, classified,
                 parsing, response, workflow,
                 listing>>

\* one iteration of the while loop: chunks.append(text[start:end]);
\* start = end - overlap; the loop ends by its break or by its condition
\* when start >= len(text).  Of the list the first MaxChunks chunks are
\* kept, n_chunks is its length up to MaxChunks + 1, odd the parity of the
\* number of iterations made.
ChunkIterate ==
    /\ chunking.pc = "loop"
    /\ LET end == ChunkEnd(chunking.text, chunking.chunk_size, chunking.start)
           start2 == end - chunking.overlap IN
       chunking' = [chunking EXCEPT
           !.chunks   = IF Len(@) < MaxChunks
                        THEN Append(@, Slice(chunking.text, chunking.start, end))
                        ELSE @,
           !.n_chunks = IF @ <= MaxChunks THEN @ + 1 ELSE @,
           !.odd      = ~@,
           !.start    = start2,
           !.pc       = IF start2 >= Len(chunking.text) THEN "done" ELSE "loop"]
    /\ UNCHANGED <<tasks, reqs, env, last_call, run, classified,
                 parsing, response, workflow,
                 listing>>

NextChunk ==
    \/ ChunkEnter
    \/ ChunkIterate

\* a call that has started keeps executing
SpecChunk == InitChunk /\ [][NextChunk]_vars /\ WF_vars(NextChunk)

(* ------------------------------------------- the filename classifiers *)
\* A path component (a directory name or the base name) is the sequence of
\* its parts between dots: "app.py" is <<"app", "py">>, ".gitignore" is
\* <<"", "gitignore">>, "README" is <<"README">>.  A filename is its
\* directories and its base name.
Filename(dirs, base) == [dirs |-> dirs, base |-> base]

SampleDirs ==
    {<<>>, << <<"src">> >>, << <<"node_modules">> >>,
     << <<"src">>, <<"build">> >>, << <<"", "github">> >>,
     << <<"", "git">> >>}
SampleBases ==
    {<<"binary", "png">>, <<"app", "py">>, <<"x", "js">>, <<"README">>,
     <<"readme", "md">>, <<"LICENSE">>, <<"Changelog">>, <<"Makefile">>,
     <<"", "gitignore">>, <<"", "eslintrc", "json">>, <<"", "env">>,
     <<"archive", "tar", "gz">>, <<"notes", "TXT">>}
Filenames == {Filename(d, b) : d \in SampleDirs, b \in SampleBases}

\* str.lower() on the parts of the sample
Lower(part) ==
    CASE part = "README"    -> "readme"
      [] part = "LICENSE"   -> "license"
      [] part = "Changelog" -> "changelog"
      [] part = "Makefile"  -> "makefile"
      [] part = "TXT"       -> "txt"
      [] OTHER              -> part

\* the string of the parts j.. of a component
RECURSIVE JoinFrom(_, _)
JoinFrom(parts, j) ==
    IF j = Len(parts) THEN parts[j]
    ELSE parts[j] \o "." \o JoinFrom(parts, j + 1)

binary_extensions ==
    {".png", ".jpg", ".jpeg", ".gif", ".bmp", ".ico", ".svg",
     ".pdf", ".doc", ".docx", ".xls", ".xlsx", ".ppt", ".pptx",
     ".zip", ".tar", ".gz", ".bz2", ".7z", ".rar",
     ".exe", ".dll", ".so", ".dylib", ".a",
     ".mp3", ".mp4", ".avi", ".mov", ".wav",
     ".ttf", ".otf", ".woff", ".woff2",
     ".db", ".sqlite", ".sqlite3"}

hidden_allowed == {".py", ".js", ".ts", ".json", ".yml", ".yaml"}

skip_patterns ==
    {"node_modules/", "__pycache__/", ".git/", ".vscode/", ".idea/",
     "build/", "dist/", "target/", "bin/", "obj/", "out/",
     "vendor/", "deps/", "coverage/", ".coverage/", ".pytest_cache/",
     "venv/", "env/", ".env/"}

source_extensions ==
    {".py", ".js", ".ts", ".jsx", ".tsx", ".java", ".c", ".cpp", ".h", ".hpp",
     ".cs", ".php", ".rb", ".go", ".rs", ".swift", ".kt", ".scala",
     ".sql", ".sh", ".bash", ".zsh", ".yml", ".yaml", ".json", ".xml",
     ".html", ".css", ".scss", ".less", ".md", ".txt", ".config", ".ini"}

doc_files == {"license", "changelog", "contributing", "authors",
              "contributors", "notice"}

\* filename_lower.endswith(ext) for some ext of the set: every ext of the
\* sets is a dot and one part
endswith_lower(f, exts) ==
    Len(f.base) >= 2 /\ ("." \o Lower(f.base[Len(f.base)])) \in exts

\* filename.endswith(...), on the name as written
endswith(f, exts) ==
    Len(f.base) >= 2 /\ ("." \o f.base[Len(f.base)]) \in exts

\* filename.startswith('.')
startswith_dot(f) ==
    LET first == IF f.dirs # <<>> THEN f.dirs[1] ELSE f.base IN
    Len(first) >= 2 /\ first[1] = ""

\* `pattern in filename` for some pattern of skip_patterns: a directory of
\* the path ends, from one of its dots or from its start, as the pattern
in_skip_patterns(f) ==
    \E k \in DOMAIN f.dirs : \E j \in DOMAIN f.dirs[k] :
        \/ (JoinFrom(f.dirs[k], j) \o "/") \in skip_patterns
        \/ j > 1 /\ ("." \o JoinFrom(f.dirs[k], j) \o "/") \in skip_patterns

\* celery_tasks._is_analyzable_file: the orchestrator's per-file check
is_analyzable_file(f) ==
    IF endswith_lower(f, binary_extensions) THEN FALSE
    ELSE IF startswith_dot(f) /\ ~endswith(f, hidden_allowed) THEN FALSE
    ELSE IF in_skip_patterns(f) THEN FALSE
    ELSE endswith_lower(f, source_extensions)

\* base_name.startswith('readme'): of the sample, the names whose first
\* part is "readme" in any case
startswith_readme(f) == Lower(f.base[1]) = "readme"

\* GitHubService._is_analyzable_file: the filter of the repository listing
github_is_analyzable_file(f) ==
    IF endswith_lower(f, binary_extensions) THEN FALSE
    ELSE IF startswith_dot(f) /\ ~endswith(f, hidden_allowed) THEN FALSE
    ELSE IF in_skip_patterns(f) THEN FALSE
    ELSE IF endswith_lower(f, source_extensions) THEN TRUE
    ELSE IF startswith_readme(f) THEN TRUE
    ELSE Len(f.base) = 1 /\ Lower(f.base[1]) \in doc_files

\* a filename reaches the classifiers
InitClassify ==
    /\ tasks = {}
    /\ reqs = <<>>
    /\ celery_available = TRUE
    /\ db_available = TRUE
    /\ last_call = Outcome("none", FALSE, FALSE, TRUE)
    /\ run = NoRun
    /\ chunking = NoChunking
    /\ parsing = NoParsing
    /\ workflow = NoWorkflow
    /\ listing = NoListing
    /\ response = NoResponse
    /\ \E f \in Filenames :
         classified = [pc |-> "listing", filename |-> f, listed |-> FALSE,
                       checked |-> FALSE]

\* get_repo_files keeps the file if its filter accepts it
ListFile ==
    /\ classified.pc = "listing"
    /\ classified' = [classified EXCEPT
           !.pc     = "loop",
           !.listed = github_is_analyzable_file(classified.filename)]
    /\ UNCHANGED <<tasks, reqs, env, last_call, run, chunking, parsing,
                 response, workflow,
                 listing>>

\* the orchestrator's loop checks the filename of every file of the list
\* (the listing of a scan, the changed files of a pull request) before
\* analysing it
CheckFile ==
    /\ classified.pc = "loop"
    /\ classified' = [classified EXCEPT
           !.pc      = "done",
           !.checked = is_analyzable_file(classified.filename)]
    /\ UNCHANGED <<tasks, reqs, env, last_call, run, chunking, parsing,
                 response, workflow,
                 listing>>

NextClassify ==
    \/ ListFile
    \/ CheckFile

SpecClassify == InitClassify /\ [][NextClassify]_vars

(* ------------------------------------------------ the response parsers *)
\* A completion response, by what the parsers can find in it:
\*   starts_brace  response.strip() starts with "{"
\*   whole         json.loads(response): "object", or "invalid" (it raises
\*                 JSONDecodeError)
\*   issues_key    the JSON objects of the response have an "issues" key
\*   fence         a ```json block: "none", or holding "valid" or "invalid"
\*                 JSON
\*   brace         the text from the first "{" to the last "}": "none",
\*                 "valid" JSON, "fixable" (valid once its quotes are
\*                 escaped) or "invalid"
\*   embedded      a brace-free object around an "issues" array: "none",
\*                 "valid" or "invalid" JSON
\*   issues_array  the text of an "issues": [...] array: "none", or "valid"
\*                 or "invalid" once wrapped in {"issues": [...]}
\*   keywords      some line holds one of the keywords of the text heuristic
Replies ==
    {r \in [starts_brace : BOOLEAN, whole : {"invalid", "object"},
            issues_key : BOOLEAN, fence : {"none", "invalid", "valid"},
            brace : {"none", "invalid", "fixable", "valid"},
            embedded : {"none", "invalid", "valid"},
            issues_array : {"none", "invalid", "valid"},
            keywords : BOOLEAN] :
        /\ r.whole = "object" =>
              r.starts_brace /\ r.brace = "valid" /\ r.fence = "none"
        /\ r.fence # "none" => r.brace # "none"
        /\ r.embedded # "none" => r.brace # "none" /\ r.issues_array # "none"
        /\ r.embedded = "valid" => r.issues_key
        /\ r.issues_array # "none" => r.keywords}

\* what a parser returns: the tier that produced it ("none": the fallback),
\* its issues ("parsed" from JSON, "extracted" from text, or "empty"),
\* whether the raw response and whether an error message go with it
Parsed(tier, issues, raw, error) ==
    [tier |-> tier, issues |-> issues, raw |-> raw, error |-> error,
     raised |-> FALSE]

\* LLMService._parse_analysis_response: every json.loads after the first is
\* in its own try, and the first one's JSONDecodeError is the handler in
\* which the others run
parse_analysis_response(r) ==
    IF r.whole = "object" THEN Parsed("direct", "parsed", FALSE, FALSE)
    ELSE IF r.fence = "valid" THEN Parsed("fence", "parsed", FALSE, FALSE)
    ELSE IF r.brace \in {"valid", "fixable"}
         THEN Parsed("brace", "parsed", FALSE, FALSE)
    ELSE IF r.issues_array = "valid"
         THEN Parsed("issues_array", "parsed", FALSE, FALSE)
    ELSE Parsed("none", "empty", TRUE, FALSE)

\* LLMService._extract_issues_from_text
extract_issues_from_text(r) == IF r.keywords THEN "extracted" ELSE "empty"

\* LLMService._parse_code_review_response: the first json.loads is in no
\* try of its own, its JSONDecodeError goes to the `except Exception` of
\* the function
parse_code_review_response(r) ==
    IF r.starts_brace /\ r.whole = "invalid"
    THEN Parsed("none", "empty", FALSE, TRUE)
    ELSE IF r.starts_brace /\ r.issues_key
         THEN Parsed("direct", "parsed", FALSE, FALSE)
    ELSE IF r.embedded = "valid" /\ r.issues_key
         THEN Parsed("embedded", "parsed", FALSE, FALSE)
    ELSE IF r.fence = "valid" /\ r.issues_key
         THEN Parsed("fence", "parsed", FALSE, FALSE)
    ELSE Parsed("heuristic", extract_issues_from_text(r), FALSE, FALSE)

\* a completion response reaches the parsers
InitParse ==
    /\ tasks = {}
    /\ reqs = <<>>
    /\ celery_available = TRUE
    /\ db_available = TRUE
    /\ last_call = Outcome("none", FALSE, FALSE, TRUE)
    /\ run = NoRun
    /\ chunking = NoChunking
    /\ classified = NoClassified
    /\ response = NoResponse
    /\ workflow = NoWorkflow
    /\ listing = NoListing
    /\ \E r \in Replies :
         parsing = [pc |-> "reply", reply |-> r,
                    result |-> Parsed("none", "empty", FALSE, FALSE)]

\* the response is parsed as the answer to a file analysis prompt
ParseAnalysis ==
    /\ parsing.pc = "reply"
    /\ parsing' = [parsing EXCEPT
           !.pc = "analysis", !.result = parse_analysis_response(parsing.reply)]
    /\ UNCHANGED <<tasks, reqs, env, last_call, run, chunking, classified,
                   response, workflow,
                 listing>>

\* the response is parsed as the answer to a code review prompt
ParseCodeReview ==
    /\ parsing.pc = "reply"
    /\ parsing' = [parsing EXCEPT
           !.pc     = "code_review",
           !.result = parse_code_review_response(parsing.reply)]
    /\ UNCHANGED <<tasks, reqs, env, last_call, run, chunking, classified,
                   response, workflow,
                 listing>>

NextParse ==
    \/ ParseAnalysis
    \/ ParseCodeReview

SpecParse == InitParse /\ [][NextParse]_vars

(* ------------------------------------------------ the multi-stage workflow *)
\* the nodes of the graph ("initial" is initial_analysis, and so on: the
\* key of CodeReviewState a node writes is its name, with _analysis for the
\* first four)
START == "__start__"
END   == "__end__"
Stages == <<"initial", "security", "performance", "quality", "final_report">>
StageSet == {Stages[k] : k \in DOMAIN Stages}

Edges_quality_bypassed ==
    {<<START, "initial">>, <<"initial", "security">>,
     <<"security", "performance">>, <<"performance", "final_report">>,
     <<"quality", "final_report">>, <<"final_report", END>>}

\* workflow.add_edge(...) of _build_workflow
Edges ==
    {<<START, "initial">>, <<"initial", "security">>,
     <<"security", "performance">>, <<"performance", "quality">>,
     <<"quality", "final_report">>, <<"final_report", END>>}

\* the node the graph runs when `node` has returned: each node has one
\* outgoing edge
Successor(node) ==
    CHOOSE m \in StageSet \cup {END} : <<node, m>> \in Edges

\* the keys _format_analysis_result reads issue-like lists from
ListKeys == <<"general_issues", "vulnerabilities", "bottlenecks", "issues">>

\* the list the prompt of a stage asks for
OwnKey(stage) ==
    CASE stage = "initial"     -> "general_issues"
      [] stage = "security"    -> "vulnerabilities"
      [] stage = "performance" -> "bottlenecks"
      [] stage = "quality"     -> "issues"

\* an element of an issue-like list: a string, an object with or without a
\* "severity", or another JSON value
Str == [t |-> "str", severity |-> NoneVal]
Dict(severity) == [t |-> "dict", severity |-> severity]
Number == [t |-> "number", severity |-> NoneVal]

ElemLists == {<<>>, <<Str>>, <<Dict("high"), Dict(NoneVal)>>, <<Str, Number>>}

\* the value under a key of an object: no such key, JSON null, or a list
Absent  == [is |-> "absent", list |-> <<>>]
Null    == [is |-> "null", list |-> <<>>]
List(l) == [is |-> "list", list |-> l]

\* no score in the object
NoScore == 0

\* what a stage holds in the state.  json: the kind of JSON value; for an
\* object its issue-like lists, its score (security_score, ...,
\* overall_score) and whether it has an "error" key
Value(json, general_issues, vulnerabilities, bottlenecks, issues, score,
      error) ==
    [json |-> json, general_issues |-> general_issues,
     vulnerabilities |-> vulnerabilities, bottlenecks |-> bottlenecks,
     issues |-> issues, score |-> score, error |-> error]

\* Python's None: the value of the five keys in initial_state, and what
\* JsonOutputParser returns for the completion `null`
PyNone == Value("null", Absent, Absent, Absent, Absent, NoScore, FALSE)

\* a completion that is a JSON array
JsonArray == Value("array", Absent, Absent, Absent, Absent, NoScore, FALSE)

\* a completion that is a JSON object with the score 7, no list yet
Object == Value("object", Absent, Absent, Absent, Absent, 7, FALSE)

\* the payload the `except` of a node stores: {"summary": "Analysis
\* failed", "error": ...} for the initial analysis, {"<x>_score": 5,
\* "error": ...} for the others
DefaultPayload(stage) ==
    Value("object", Absent, Absent, Absent, Absent,
          IF stage = "initial" THEN NoScore ELSE 5, TRUE)

ChainRaises == Value("raise", Absent, Absent, Absent, Absent, NoScore, FALSE)

\* what `await chain.ainvoke({})` does in a node: it raises (no model, the
\* call fails, the completion is no JSON), or returns the JSON value parsed
ChainResults(stage) ==
    IF stage = "final_report" THEN {ChainRaises, PyNone, Object}
    ELSE {ChainRaises, PyNone, JsonArray}
         \cup {[Object EXCEPT ![OwnKey(stage)] = List(l)] : l \in ElemLists}
         \cup {[Object EXCEPT ![OwnKey(stage)] = Null]}
         \cup (IF stage = "security"
               THEN {[Object EXCEPT !.vulnerabilities = List(<<Str>>),
                                    !.issues = List(<<Dict("low")>>)]}
               ELSE {})

\* the keys of the state a node's prompt is formatted from: Initial
\* Analysis in the three specialised stages, the four analyses in the
\* final report
PromptKeys(stage) ==
    CASE stage = "initial"      -> {}
      [] stage \in {"security", "performance", "quality"} -> {"initial"}
      [] stage = "final_report" ->
            {"initial", "security", "performance", "quality"}

\* a node of the graph on the state `st` of the invocation, its chain
\* doing `r` (ran, chain: the nodes run and what their chains did)
run_node(stage, st, r) ==
    [st EXCEPT
        !.state[stage] = IF r = ChainRaises THEN DefaultPayload(stage) ELSE r,
        !.errors  = IF r = ChainRaises THEN Append(@, stage) ELSE @,
        !.ran     = Append(@, stage),
        !.chain   = Append(@, r),
        !.prompts = Append(@, [stage |-> stage,
                               sees  |-> [k \in PromptKeys(stage) |->
                                             st.state[k]]])]

\* an entry of all_issues: its "type" and "severity"
Entry(type, severity) == [type |-> type, severity |-> severity]

\* analysis.get("general_issues", []) + ... + analysis.get("issues", [])
\* raises TypeError when a value is not a list
concat_raises(analysis) ==
    \E k \in DOMAIN ListKeys : analysis[ListKeys[k]] = Null

RECURSIVE concat_lists(_, _)
concat_lists(analysis, n) ==
    IF n = 0 THEN <<>>
    ELSE concat_lists(analysis, n - 1)
         \o analysis[ListKeys[n]].list

\* for issue in issues: an entry for a str, an entry for a dict, nothing
\* for anything else
entries(stage, issues) ==
    LET kept == SelectSeq(issues, LAMBDA e : e.t \in {"str", "dict"}) IN
    [k \in 1..Len(kept) |->
        Entry(stage, IF kept[k].t = "dict" /\ kept[k].severity # NoneVal
                     THEN kept[k].severity ELSE "medium")]

\* the loop over the four analyses: those that are no dict are passed over
RECURSIVE all_issues(_, _)
all_issues(state, n) ==
    IF n = 0 THEN <<>>
    ELSE all_issues(state, n - 1)
         \o (IF state[Stages[n]].json # "object" THEN <<>>
             ELSE entries(Stages[n], concat_lists(state[Stages[n]], 4)))

\* _format_analysis_result raises: TypeError in the concatenation, or
\* AttributeError in final_report.get on a final report that is no dict
format_raises(state) ==
    \/ \E n \in 1..4 : state[Stages[n]].json = "object"
                          /\ concat_raises(state[Stages[n]])
    \/ state["final_report"].json # "object"

\* what analyze_code_diff returns after the workflow: the formatted final
\* state or, when formatting raises, _fallback_analysis
format_final_state(state, errors) ==
    IF format_raises(state)
    THEN [fallback |-> TRUE, issues |-> <<Entry("system", "low")>>,
          workflow_errors |-> <<>>]
    ELSE [fallback |-> FALSE, issues |-> all_issues(state, 4),
          workflow_errors |-> errors]

NoResult == [fallback |-> FALSE, issues |-> <<>>, workflow_errors |-> <<>>]

\* initial_state of analyze_code_diff, handed to workflow.ainvoke
InitWorkflow ==
    /\ tasks = {}
    /\ reqs = <<>>
    /\ celery_available = TRUE
    /\ db_available = TRUE
    /\ last_call = Outcome("none", FALSE, FALSE, TRUE)
    /\ run = NoRun
    /\ chunking = NoChunking
    /\ classified = NoClassified
    /\ parsing = NoParsing
    /\ response = NoResponse
    /\ listing = NoListing
    /\ workflow = [pc |-> "graph", next |-> Successor(START),
                   state |-> [s \in StageSet |-> PyNone], errors |-> <<>>,
                   ran |-> <<>>, chain |-> <<>>, prompts |-> <<>>,
                   result |-> NoResult]

\* the graph runs its next node
RunNode ==
    /\ workflow.pc = "graph"
    /\ \E r \in ChainResults(workflow.next) :
         LET after == run_node(workflow.next, workflow, r)
             succ  == Successor(workflow.next) IN
         workflow' = [after EXCEPT !.next = succ,
                                   !.pc = IF succ = END THEN "format"
                                          ELSE "graph"]
    /\ UNCHANGED <<tasks, reqs, env, last_call, run, chunking, classified,
                   parsing, response, listing>>

\* result = self._format_analysis_result(final_state), or the fallback
FormatResult ==
    /\ workflow.pc = "format"
    /\ workflow' = [workflow EXCEPT
                       !.pc = "done",
                       !.result = format_final_state(workflow.state,
                                                     workflow.errors)]
    /\ UNCHANGED <<tasks, reqs, env, last_call, run, chunking, classified,
                   parsing, response, listing>>

NextWorkflow ==
    \/ RunNode
    \/ FormatResult

SpecWorkflow == InitWorkflow /\ [][NextWorkflow]_vars

(* --------------------------------------------- the repository file listing *)
\* a repository tree: a chain of `depth` nested directories below the root,
\* every directory with the same layout of entries (the directory entry is
\* missing in the innermost one).  An entry is a file that
\* _is_analyzable_file accepts ("code") or rejects ("binary"), a directory,
\* or a content of another type.
Wide == [k \in 1..61 |-> IF k <= 60 THEN "code" ELSE "dir"]

Layouts == {<<"code", "dir">>, <<"dir", "binary", "code">>,
            <<"code", "symlink", "dir", "code", "code">>, Wide}

TreeDepths == 0..7

\* max_files, 100 when the orchestrator calls
MaxFilesArgs == {1, 2, 4, 100}

\* a content is named by its position in its directory, a path is the
\* sequence of the names from the root: the path has Len - 1 slashes
count_slashes(path) == Len(path) - 1

\* repo.get_contents(path): the entries of the directory at `path`
get_contents(tree, path) ==
    IF Len(path) < tree.depth THEN tree.layout
    ELSE SelectSeq(tree.layout, LAMBDA e : e # "dir")

descends_any_depth(full_path) == TRUE

\* if full_path.count('/') < 5
descends(full_path) == count_slashes(full_path) < 5

\* a frame of process_contents(contents, path_prefix): the directory and the
\* position of the loop in its contents
Call(path_prefix, at) == [path_prefix |-> path_prefix, at |-> at]

\* get_repo_files(repo_url, ref, max_files) has listed the root and called
\* process_contents(root_contents)
InitListing ==
    /\ tasks = {}
    /\ reqs = <<>>
    /\ celery_available = TRUE
    /\ db_available = TRUE
    /\ last_call = Outcome("none", FALSE, FALSE, TRUE)
    /\ run = NoRun
    /\ chunking = NoChunking
    /\ classified = NoClassified
    /\ parsing = NoParsing
    /\ response = NoResponse
    /\ workflow = NoWorkflow
    /\ \E layout \in Layouts, depth \in TreeDepths, max_files \in MaxFilesArgs :
         listing = [pc |-> "walk",
                    tree |-> [layout |-> layout, depth |-> depth],
                    max_files |-> max_files, files |-> <<>>,
                    file_count |-> 0, stack |-> <<Call(<<>>, 1)>>]

\* the frame on top of the stack, the contents it loops over, the content
\* the loop is at and its full_path
Top == listing.stack[Len(listing.stack)]
TopContents == get_contents(listing.tree, Top.path_prefix)
InLoop ==
    /\ listing.pc = "walk"
    /\ Top.at <= Len(TopContents)
    /\ listing.file_count < listing.max_files
Content == TopContents[Top.at]
FullPath == Append(Top.path_prefix, Top.at)

\* the loop of the top frame goes on to its next content
Advance(stack) == [stack EXCEPT ![Len(stack)].at = @ + 1]

\* content.type == "file": appended when analyzable
ListingFile ==
    /\ InLoop
    /\ Content \in {"code", "binary"}
    /\ listing' = [listing EXCEPT
                      !.files = IF Content = "code" THEN Append(@, FullPath)
                                ELSE @,
                      !.file_count = IF Content = "code" THEN @ + 1 ELSE @,
                      !.stack = Advance(@)]
    /\ UNCHANGED <<tasks, reqs, env, last_call, run, chunking, classified,
                   parsing, response, workflow>>

\* content.type == "dir", within the depth limit: get_contents answers and
\* process_contents is called on the directory
ListingEnterDir ==
    /\ InLoop
    /\ Content = "dir"
    /\ descends(FullPath)
    /\ listing' = [listing EXCEPT
                      !.stack = Append(Advance(@), Call(FullPath, 1))]
    /\ UNCHANGED <<tasks, reqs, env, last_call, run, chunking, classified,
                   parsing, response, workflow>>

\* a directory beyond the depth limit, a directory whose get_contents
\* raises (caught and logged), or a content that is no file and no
\* directory: the loop goes on
ListingSkip ==
    /\ InLoop
    /\ Content \in {"dir", "symlink"}
    /\ listing' = [listing EXCEPT !.stack = Advance(@)]
    /\ UNCHANGED <<tasks, reqs, env, last_call, run, chunking, classified,
                   parsing, response, workflow>>

\* the loop of the top frame ends, or breaks on file_count >= max_files:
\* process_contents returns, and get_repo_files returns `files` when it
\* was the call on the root
ListingReturn ==
    /\ listing.pc = "walk"
    /\ ~InLoop
    /\ listing' = IF Len(listing.stack) = 1
                  THEN [listing EXCEPT !.pc = "done", !.stack = <<>>]
                  ELSE [listing EXCEPT
                           !.stack = SubSeq(@, 1, Len(@) - 1)]
    /\ UNCHANGED <<tasks, reqs, env, last_call, run, chunking, classified,
                   parsing, response, workflow>>

NextListing ==
    \/ ListingFile
    \/ ListingEnterDir
    \/ ListingSkip
    \/ ListingReturn

\* every await of the walk returns
SpecListing == InitListing /\ [][NextListing]_vars /\ WF_vars(NextListing)

(* ------------------------------------- the run inside the worker process *)
\* celery_app.conf.update(task_time_limit=600): the hard time limit of a
\* task in seconds; the worker kills the process that runs a task for longer
\* and no handler of the task runs
task_time_limit == 600

\* ChatOllama(timeout=120), httpx.AsyncClient(timeout=120.0): the seconds a
\* completion call may take before it raises
completion_timeout == 120

\* the completion calls of the analysis of one unit: one per stage of the
\* workflow, else one
unit_completions(cfg) == IF cfg.engine = "langgraph" THEN Len(Stages) ELSE 1

\* the unit analyses the run has made
RECURSIVE unit_analyses(_)
unit_analyses(calls) ==
    IF calls = <<>> THEN 0
    ELSE (IF Head(calls)[1] \in {"analyze_code_diff", "analyze_file_content"}
          THEN 1 ELSE 0) + unit_analyses(Tail(calls))

\* the seconds the run can have spent in its completion calls, each of them
\* returning or raising within its timeout; its fetches and its updates of
\* the record take time besides
longest_elapsed(r) ==
    unit_analyses(r.calls) * unit_completions(r.cfg) * completion_timeout

\* the run has lasted task_time_limit seconds: the worker kills its process
RunTimeLimit ==
    /\ run.pc \notin {"done", "raised", "killed"}
    /\ longest_elapsed(run) >= task_time_limit
    /\ run' = [run EXCEPT !.pc = "killed"]
    /\ UNCHANGED <<tasks, reqs, env, last_call, chunking, classified, parsing,
                 response, workflow, listing>>

\* the steps of the run itself: every call it waits for returns or raises
RunSteps ==
    \/ RunFetchInfo
    \/ RunFetchFiles
    \/ RunStartAnalysis
    \/ RunAnalyzeFile
    \/ RunGenerateReport
    \/ RunCompleteTask
    \/ RunHandleException
    \/ RunTaskFailed

\* a run whose store answers from its start to its end
InitWorker == InitRun /\ db_available

NextWorker ==
    \/ RunSteps
    \/ RunTimeLimit

SpecWorker == InitWorker /\ [][NextWorker]_vars /\ WF_vars(RunSteps)

(* ================================================================ claims *)
Terminal == {"completed", "failed"}

\* a request whose run is enqueued or executing
InFlight(r) == reqs[r].pc \in UpdatePcs

\* C1: terminal states are absorbing: a row whose status is completed or
\* failed keeps that status in every later state.
C1_TerminalAbsorbing ==
    [][\A row \in tasks : row.status \in Terminal =>
          \E row2 \in tasks' : row2.id = row.id /\ row2.status = row.status]_vars

\* C2: at most one orchestrator run per task record: no two submissions of
\* the same (repo_url, pr_number) both have a run enqueued or executing.
C2_SingleRunPerRecord ==
    \A a, b \in DOMAIN reqs :
        (a # b /\ reqs[a].id = reqs[b].id) => ~(InFlight(a) /\ InFlight(b))

\* C3: between two consecutive states in which a row is processing, its
\* progress does not decrease.
C3_ProgressMonotone ==
    [][\A row \in tasks, row2 \in tasks' :
          (row2.id = row.id /\ row.status = "processing"
              /\ row2.status = "processing")
          => row2.progress >= row.progress]_vars

C5_PayloadOnlyIfTerminal ==
    \A row \in tasks :
        /\ row.result # NoneVal => row.status = "completed"
        /\ row.error # NoneVal  => row.status = "failed"

\* C6: every status change of a row is queued -> processing, processing ->
\* completed or processing -> failed.
C6_LifecycleEdges ==
    [][\A row \in tasks, row2 \in tasks' :
          (row2.id = row.id /\ row2.status # row.status)
          => <<row.status, row2.status>> \in
                {<<"queued", "processing">>, <<"processing", "completed">>,
                 <<"processing", "failed">>}]_vars

\* C7: a row inserted by create has status queued, progress 0, no result
\* and no error.
C7_CreatedQueued ==
    [][\A row2 \in tasks' : Rows(tasks, row2.id) = {} =>
          /\ row2.status = "queued"
          /\ row2.progress = 0
          /\ row2.result = NoneVal
          /\ row2.error = NoneVal]_vars

\* C8: create is idempotent: create_task called while the store answers and
\* a row with the id exists returns True without reaching the INSERT and
\* leaves the table as it is; an INSERT that meets a row with its id leaves
\* the table as it is; and no two rows ever share an id.
C8_CreateIdempotent ==
    [][/\ (Len(reqs') = Len(reqs) + 1 /\ db_available
             /\ Rows(tasks, reqs'[Len(reqs')].id) # {})
          => /\ tasks' = tasks
             /\ reqs'[Len(reqs')].pc # "insert"
             /\ last_call'.op = "create" /\ last_call'.ret
       /\ \A r \in DOMAIN reqs :
             (reqs[r].pc = "insert" /\ reqs'[r].pc # "insert"
                 /\ Rows(tasks, reqs[r].id) # {})
             => tasks' = tasks
       /\ \A row \in tasks', row2 \in tasks' : row.id = row2.id => row = row2
      ]_vars

\* C8 witness: create_task has just returned True for an id whose row a run
\* has already moved on, and that row is still the only one.
C8_Witness ==
    /\ last_call = Outcome("create", TRUE, TRUE, TRUE)
    /\ Len(reqs) = 2 /\ reqs[1].id = reqs[2].id
    /\ \E row \in tasks : row.status = "completed"
    /\ Cardinality(tasks) = 1

\* C9: create returns False only when the store is unavailable.
C9_CreateFalseOnlyUnavailable ==
    (last_call.op = "create" /\ ~last_call.ret) => ~last_call.db_ok

\* what update(task_id, status, progress, message, result, error) may
\* change: nothing of the other rows, and of the row task_id nothing but
\* the status and the optional fields that were provided
Frame(task_id, progress, message, result, error) ==
    /\ \A row \in tasks : row.id # task_id => row \in tasks'
    /\ \A row2 \in tasks' : row2.id # task_id => row2 \in tasks
    /\ Cardinality(Rows(tasks', task_id)) = Cardinality(Rows(tasks, task_id))
    /\ \A row \in Rows(tasks, task_id) : \E row2 \in Rows(tasks', task_id) :
          /\ row2.repo_url = row.repo_url
          /\ row2.pr_number = row.pr_number
          /\ row2.github_token = row.github_token
          /\ progress = NoProgress => row2.progress = row.progress
          /\ message = NoneVal => row2.message = row.message
          /\ result = NoneVal => row2.result = row.result
          /\ error = NoneVal => row2.error = row.error

\* C10: an update changes only the status and the provided fields of the
\* row it names; the row's repo_url, pr_number, credential and id and every
\* other row are unchanged.  For every row a step modifies and every choice
\* of optional arguments with which the step is the call update(row.id,
\* row.status, progress, message, result, error), Frame holds of the step.
C10_UpdateFrame ==
    [][\A row2 \in tasks' \ tasks :
          \A progress \in Progresses, message \in Messages,
             result \in Results, error \in Errors :
             (/\ last_call'.op = "update"
              /\ tasks' = update_task_status(tasks, row2.id, row2.status,
                     progress, message, result, error, db_available))
             => Frame(row2.id, progress, message, result, error)]_vars

\* C10 witness: with two rows in the table, an update that provided a
\* result but neither progress, message nor error has been applied to one
\* of them, and the other is as created.
C10_Witness ==
    /\ last_call = Outcome("update", TRUE, TRUE, TRUE)
    /\ Cardinality(tasks) = 2
    /\ \E row \in tasks :
          /\ row.status = "completed" /\ row.result = "results"
          /\ row.progress = 0 /\ row.message = NoneVal /\ row.error = NoneVal
    /\ \E row \in tasks : row.status = "pending"

\* C11: update on a task id without a row, or while the store is
\* unavailable, returns False and leaves the table as it is: for every task
\* id and every choice of arguments with which a step is the call
\* update(task_id, status, progress, message, result, error), if the id had
\* no row or the store did not answer, the call has returned False, no row
\* was created and no row was changed (a step either is such a return, or
\* is no such call).
C11_UpdateMissFails ==
    [][\/ last_call'.op = "update" /\ ~last_call'.ret /\ tasks' = tasks
       \/ \A repo_url \in Urls, pr_number \in Prs :
             LET task_id == generate_task_id(repo_url, pr_number) IN
             (Rows(tasks, task_id) = {} \/ ~db_available) =>
                \A status \in Statuses, progress \in Progresses,
                   message \in Messages, result \in Results,
                   error \in Errors :
                   ~update_call(task_id, status, progress, message, result,
                                error)]_vars

\* C11 witness: update has returned False on an id without a row while the
\* store answered, next to a row another update had completed.
C11_Witness ==
    /\ last_call = Outcome("update", FALSE, FALSE, TRUE)
    /\ Cardinality(tasks) = 1
    /\ \E row \in tasks : row.status = "completed"

\* the row of the run's task, if there is one
RunRows == Rows(tasks, run.id)

\* C12 as stated: when the handler of analyze_pr_async has run, the task's
\* row is failed with progress 0 and the exception message as error, and
\* the exception goes on to analyze_pr_task.
C12_FailureRecorded ==
    [][(run.pc = "except" /\ run' # run) =>
          /\ run'.pc = "wrapper"
          /\ \A row2 \in Rows(tasks', run.id) :
                /\ row2.status = "failed"
                /\ row2.progress = 0
                /\ row2.error = run.err]_vars

\* C12 amended: the same, of a handler whose update the store answers.
C12_FailureRecordedIfStored ==
    [][(run.pc = "except" /\ run' # run) =>
          /\ run'.pc = "wrapper"
          /\ db_available =>
                \A row2 \in Rows(tasks', run.id) :
                   /\ row2.status = "failed"
                   /\ row2.progress = 0
                   /\ row2.error = run.err]_vars

\* C12 witness: the handler has run after get_pr_files answered no file, the
\* row is failed with that message, and the exception is in analyze_pr_task.
C12_Witness ==
    /\ run.pc = "wrapper" /\ run.err = "no_files"
    /\ last_call = Outcome("update", TRUE, TRUE, TRUE)
    /\ \E row \in RunRows :
          row.status = "failed" /\ row.progress = 0 /\ row.error = "no_files"

\* C13: once the fetch phase has succeeded the run does not fail: a run in
\* its handler, or raised to the task queue, has no file list.
C13_NoFailureAfterFetch ==
    run.pc \in {"except", "wrapper", "raised"} => run.files = <<>>

\* the unit's completion call failed: it timed out or could not connect
AnalysisFailed(unit) ==
    unit.kind = "code" /\ unit.completion.kind \in {"timeout", "connect_error"}

\* the file list with an empty issue list answered for every failed unit
Healed(files) ==
    [k \in DOMAIN files |->
        IF AnalysisFailed(files[k])
        THEN Unit("code", Answer("issues", <<>>)) ELSE files[k]]

\* C14: the totals of the report are those of the run in which every unit
\* whose analysis failed had answered an empty issue list.
C14_FailedUnitCountsNothing ==
    run.pc = "done" =>
        LET healed == run_loop(run.cfg, Healed(run.files), Len(run.files)) IN
        /\ run.report.summary.total_issues = healed.total_issues
        /\ run.report.summary.critical_issues = healed.critical_issues

\* C15: failed updates change nothing of the run: no exception comes from
\* an update, and a run that returns has issued the calls and built the
\* report that its file list determines, whatever its updates returned.
C15_UpdatesDoNotSteer ==
    /\ run.pc # "none" => run.err # "update_failed"
    /\ run.pc = "done" =>
          /\ run.report = build_results(
                 run_loop(run.cfg, run.files, Len(run.files)))
          /\ run.calls = fetch_calls(run.cfg.pr_number)
                 \o loop_calls(run.cfg, run.files, Len(run.files))

\* C15 witness: a run has returned a report with an issue while none of its
\* updates reached the row, the last one included.
C15_Witness ==
    /\ run.pc = "done"
    /\ run.report.summary.total_issues > 0
    /\ last_call = Outcome("update", FALSE, FALSE, FALSE)
    /\ \E row \in RunRows : row.status = "pending"

\* C16: the report lists one record per unit that was run through the
\* Analysis Engine, in the order of the listing, and total_files counts them.
C16_OneRecordPerAnalysedUnit ==
    run.pc = "done" =>
        LET analysed == {k \in DOMAIN run.files : Analysed(run.files[k])}
            records  == run.report.files IN
        /\ Len(records) = Cardinality(analysed)
        /\ {records[j].name : j \in DOMAIN records} = analysed
        /\ \A j, k \in DOMAIN records :
              j < k => records[j].name < records[k].name
        /\ run.report.summary.total_files = Cardinality(analysed)

\* the list the engine returned for a unit: its issues, else its findings
engine_list(cfg, unit) ==
    LET result == analysis_result(cfg, unit) IN
    IF result.issues # <<>> THEN result.issues ELSE result.findings

\* the critical items the engine returned for the first n reported files
RECURSIVE critical_returned(_, _, _, _)
critical_returned(cfg, files, records, n) ==
    IF n = 0 THEN 0
    ELSE critical_returned(cfg, files, records, n - 1)
         + count_critical(engine_list(cfg, files[records[n].name]))

\* C17: critical_issues is the number of items the engine returned for the
\* reported files whose severity is critical or high or whose type is
\* security or bug, in the issues shape and in the findings shape.
C17_CriticalCount ==
    run.pc = "done" =>
        run.report.summary.critical_issues =
            critical_returned(run.cfg, run.files, run.report.files,
                              Len(run.report.files))

RECURSIVE sum_issues(_, _)
sum_issues(records, n) ==
    IF n = 0 THEN 0 ELSE sum_issues(records, n - 1) + Len(records[n].issues)

\* C18: in every report built, total_files is the number of records,
\* total_issues the sum of the lengths of their issue lists, and
\* 0 <= critical_issues <= total_issues.
C18_SummaryConsistent ==
    run.pc \in {"complete", "done"} =>
        LET summary == run.report.summary IN
        /\ summary.total_files = Len(run.report.files)
        /\ summary.total_issues =
              sum_issues(run.report.files, Len(run.report.files))
        /\ 0 <= summary.critical_issues
        /\ summary.critical_issues <= summary.total_issues

\* C18 witness: the report of a pull request with one file for which the
\* engine returned two issues, one of them critical.
C18_Witness ==
    /\ run.pc = "done" /\ run.cfg.pr_number # NoPr
    /\ run.report.summary =
          [total_files |-> 1, total_issues |-> 2, critical_issues |-> 1]


\* c0 followed by each later chunk without its first `overlap` characters
RECURSIVE Rejoin(_, _)
Rejoin(chunks, overlap) ==
    IF Len(chunks) <= 1
    THEN (IF chunks = <<>> THEN <<>> ELSE chunks[1])
    ELSE Rejoin(SubSeq(chunks, 1, Len(chunks) - 1), overlap)
         \o Slice(chunks[Len(chunks)], overlap, Len(chunks[Len(chunks)]))

\* C19: chunking round trip: when chunk_text returns for arguments with
\* 0 <= overlap < chunk_size, the first chunk followed by every later chunk
\* without its first `overlap` characters is the text.
C19_ChunkRoundTrip ==
    (/\ chunking.pc = "done"
     /\ chunking.overlap < chunking.chunk_size
     /\ chunking.n_chunks <= MaxChunks)
    => Rejoin(chunking.chunks, chunking.overlap) = chunking.text

\* C20: a call of chunk_text with overlap >= chunk_size on a text longer than
\* chunk_size returns.
C20_ChunkTerminates ==
    (/\ chunking.pc = "loop"
     /\ chunking.overlap >= chunking.chunk_size) ~> (chunking.pc = "done")

\* C21: for 0 <= overlap < chunk_size a call of chunk_text returns, and
\* every iteration of its loop ends with a start greater than the one it
\* began with, also when the cut is moved back to a newline or a space.
C21_ChunkProgress ==
    /\ [][(/\ chunking.pc = "loop"
            /\ chunking.overlap < chunking.chunk_size
            /\ chunking' # chunking)
           => chunking'.start > chunking.start]_vars
    /\ (/\ chunking.pc = "loop"
         /\ chunking.overlap < chunking.chunk_size) ~> (chunking.pc = "done")

\* the lists parsed from the answers to the first n chunks, in chunk order
RECURSIVE parsed_lists(_, _)
parsed_lists(cs, n) ==
    IF n = 0 THEN <<>>
    ELSE parsed_lists(cs, n - 1)
         \o (IF cs[n].kind \in {"issues", "findings"} THEN cs[n].list
             ELSE <<>>)

\* C22: for every file of more than 8000 characters a scan has analysed,
\* the finding list of the file's result is the concatenation, in chunk
\* order, of what was parsed from the answer to each chunk.
C22_LargeFileConcatenates ==
    run.pc \in {"loop", "complete", "done"} =>
        \A k \in 1..run.i :
            run.files[k].kind = "large" =>
                analysis_result(run.cfg, run.files[k]).findings =
                    parsed_lists(run.files[k].completion.list,
                                 Len(run.files[k].completion.list))

\* the two paths that serve analyze_code_diff with the completion capability
Paths == {"langgraph", "basic"}

\* the unit's result is a list of findings: dicts with a category
FindingList(result) ==
    /\ result.findings = <<>>
    /\ \A j \in DOMAIN result.issues :
          result.issues[j].is_dict /\ result.issues[j].type # NoneVal

\* C23: the multi-stage path and the single-call path satisfy one output
\* contract: in a pull request run served by either, the result of every
\* unit the loop has reached is an ordered list of findings (objects with
\* a category), and whether the orchestrator gets a record for the unit or
\* an exception does not depend on the path.
C23_SameContract ==
    (/\ run.pc \in {"loop", "complete", "done", "except", "wrapper", "raised"}
     /\ run.cfg.pr_number # NoPr
     /\ run.cfg.engine \in Paths)
    => \A k \in DOMAIN run.files :
          (Analysed(run.files[k]) /\ <<"analyze_code_diff", k>> \in
               {run.calls[j] : j \in DOMAIN run.calls})
          => /\ FindingList(analysis_result(run.cfg, run.files[k]))
             /\ \A p, q \in Paths :
                   unit_raises([run.cfg EXCEPT !.engine = p], run.files[k])
                   = unit_raises([run.cfg EXCEPT !.engine = q], run.files[k])

\* C24: results retrieval returns the report only of a completed task: a
\* response of GET /results/{task_id} that carries a report has code 200
\* and status completed, and the response for a task in any other status
\* is a 4xx error with that status and without a report.
C24_ResultsOnlyWhenCompleted ==
    response.route = "results" =>
        /\ response.result # NoneVal =>
              response.code = 200 /\ response.status = "completed"
        /\ (response.status # NoneVal /\ response.status # "completed") =>
              /\ response.code \in 400..499
              /\ response.result = NoneVal

\* C25: a submission with an invalid URL, an invalid PR number or a PR
\* that does not exist fails fast: the step in which analyze_pr refuses a
\* request creates no row and enqueues no run, and no run ever finds that
\* the pull request it was enqueued for does not exist.
C25_InvalidFailsFast ==
    /\ [][(/\ response' # response
            /\ response'.route = "analyze_pr"
            /\ response'.code >= 400)
           => tasks' = tasks /\ reqs' = reqs]_vars
    /\ [](\A r \in DOMAIN reqs : reqs[r].err # "pr_not_found")

\* the base name is README* or a known doc filename, in any case
doc_name(f) ==
    \/ Lower(f.base[1]) = "readme"
    \/ Len(f.base) = 1 /\ Lower(f.base[1]) \in doc_files

\* the decision of the five rules of file selection
five_rules(f) ==
    IF endswith_lower(f, binary_extensions) THEN FALSE
    ELSE IF in_skip_patterns(f) THEN FALSE
    ELSE IF startswith_dot(f) /\ ~endswith(f, hidden_allowed) THEN FALSE
    ELSE endswith_lower(f, source_extensions) \/ doc_name(f)

\* C26: the listing filter of the content provider and the per-file check
\* of the orchestrator both give the decision of the five rules of file
\* selection; README without extension is accepted by both.
C26_ClassifiersFollowRules ==
    /\ classified.pc \in {"loop", "done"} =>
          classified.listed = five_rules(classified.filename)
    /\ classified.pc = "done" =>
          classified.checked = five_rules(classified.filename)

\* pr_number values on which generate_task_id is compared
IdPrs == {NoPr, 1, 7, 8, 70}

TierOrder(parser) ==
    IF parser = "analysis"
    THEN <<"direct", "fence", "brace", "issues_array">>
    ELSE <<"direct", "embedded", "fence", "heuristic">>

\* the tier finds what it looks for in the response
Succeeds(parser, tier, r) ==
    CASE tier = "direct" ->
            /\ r.whole = "object"
            /\ parser = "code_review" => r.issues_key
      [] tier = "fence" ->
            /\ r.fence = "valid"
            /\ parser = "code_review" => r.issues_key
      [] tier = "brace"        -> r.brace \in {"valid", "fixable"}
      [] tier = "issues_array" -> r.issues_array = "valid"
      [] tier = "embedded"     -> r.embedded = "valid" /\ r.issues_key
      [] tier = "heuristic"    -> r.keywords

\* the first tier of the parser that succeeds on the response, or "none"
FirstTier(parser, r) ==
    LET order == TierOrder(parser)
        S     == {k \in DOMAIN order : Succeeds(parser, order[k], r)} IN
    IF S = {} THEN "none"
    ELSE order[CHOOSE k \in S : \A j \in S : k <= j]

\* C28: response parsing is total: a parser returns without raising, what
\* it returns is the result of the first of its tiers that succeeds, and
\* when none succeeds an empty issue list together with the raw response.
C28_ParsingTotal ==
    parsing.pc \in {"analysis", "code_review"} =>
        LET first == FirstTier(parsing.pc, parsing.reply) IN
        /\ ~parsing.result.raised
        /\ first # "none" =>
              parsing.result.tier = first /\ parsing.result.issues # "empty"
        /\ first = "none" =>
              parsing.result.issues = "empty" /\ parsing.result.raw

\* the updates of an exception-free run over n units, in order
ExpectedUpdates(n) ==
    [k \in 1..(n + 5) |->
        CASE k = 1     -> <<"processing", 10>>
          [] k = 2     -> <<"processing", 25>>
          [] k = 3     -> <<"processing", 50>>
          [] k = n + 4 -> <<"processing", 85>>
          [] k = n + 5 -> <<"completed", 100>>
          [] OTHER     -> <<"processing", 50 + ((30 * (k - 4)) \div n)>>]

NonDecreasing(updates) ==
    \A k \in 1..(Len(updates) - 1) : updates[k][2] <= updates[k + 1][2]

RaisedPcs == {"except", "wrapper", "raised"}

\* C29: a run that raises no exception over n >= 1 units issues, in this
\* order, (processing,10), (processing,25), (processing,50), for each unit
\* i = 0..n-1 (processing, 50 + floor(30*i/n)) with a value in 50..79,
\* (processing,85), (completed,100); the progress values never decrease and
\* the loop never divides by zero.
C29_ProgressSequence ==
    /\ run.pc = "loop" => Len(run.files) >= 1
    /\ run.pc \in {"p25", "p50", "loop", "complete"} =>
          /\ NonDecreasing(run.updates)
          /\ Len(run.files) >= 1 =>
                run.updates = SubSeq(ExpectedUpdates(Len(run.files)), 1,
                                     Len(run.updates))
    /\ run.pc = "done" =>
          LET n == Len(run.files) IN
          /\ n >= 1
          /\ run.updates = ExpectedUpdates(n)
          /\ \A k \in 4..(n + 3) : run.updates[k][2] \in 50..79
          /\ NonDecreasing(run.updates)

C29_Witness ==
    /\ run.pc = "done"
    /\ Len(run.files) = 2
    /\ run.updates = << <<"processing", 10>>, <<"processing", 25>>,
                        <<"processing", 50>>, <<"processing", 50>>,
                        <<"processing", 65>>, <<"processing", 85>>,
                        <<"completed", 100>> >>

Reported25(updates) == \E k \in DOMAIN updates : updates[k][2] = 25

FilesFetched(calls) == \E k \in DOMAIN calls : calls[k] = <<"get_files", 0>>

\* C30: progress 25 is written only after the metadata and the file list
\* have both been fetched, and a run that fails while fetching never
\* reported progress 25.
C30_Progress25AfterFetch ==
    /\ [][(run.pc # "none" /\ ~Reported25(run.updates)
                            /\ Reported25(run'.updates))
            => FilesFetched(run.calls)]_vars
    /\ [](run.pc # "none" /\ run.err \in {"pr_not_found", "info_failed",
                                            "no_files"}
            => ~Reported25(run.updates))

\* the run made the call `name` on the content provider or the engine
Called(name) == \E k \in DOMAIN run.calls : run.calls[k][1] = name

\* check_pr_exists answered False in this run; the message of the exception
\* holds the repository url and the PR number (line 155)
PrMissing == run.pc # "none" /\ run.err = "pr_not_found"

NoCallAfterMissingPr ==
    PrMissing =>
        /\ run.cfg.pr_number # NoPr
        /\ run.calls = << <<"check_pr_exists", 0>> >>
        /\ ~Called("get_info") /\ ~Called("get_files")
        /\ ~Called("analyze_code_diff") /\ ~Called("analyze_file_content")
        /\ \A row \in RunRows : row.status # "completed"

FailedNamingPr(row) ==
    row.status = "failed" /\ row.progress = 0 /\ row.error = "pr_not_found"

\* C31 as stated: when the content provider reports that the PR does not
\* exist the run fetches no PR metadata and no file list and makes no
\* completion call, and the task ends failed with an error naming the PR,
\* never completed.
C31_MissingPrFails ==
    /\ NoCallAfterMissingPr
    /\ PrMissing /\ run.pc = "raised" => \A row \in RunRows : FailedNamingPr(row)

\* C31 amended: the same, the task ending failed when the store answers the
\* update of a failure handler; otherwise the record stays as it was.
C31_MissingPrFailsIfStored ==
    /\ NoCallAfterMissingPr
    /\ PrMissing /\ run.pc \in {"wrapper", "raised"} /\ last_call.ret =>
          \A row \in RunRows : FailedNamingPr(row)
    /\ PrMissing /\ run.pc = "raised" =>
          \A row \in RunRows :
             FailedNamingPr(row) \/ row.status \in {"pending", "processing"}

\* C31 witness: check_pr_exists answered False, both handlers have run, and
\* the record is failed with the message naming the PR.
C31_Witness ==
    /\ PrMissing /\ run.pc = "raised"
    /\ run.calls = << <<"check_pr_exists", 0>> >>
    /\ \E row \in RunRows : FailedNamingPr(row)

\* the unit is one the loop rejects: not analyzable, or without a patch in
\* diff mode
Rejected(cfg, unit) ==
    \/ unit.kind = "binary"
    \/ cfg.pr_number # NoPr /\ unit.kind = "unchanged"

RejectedNames ==
    {k \in DOMAIN run.files : Rejected(run.cfg, run.files[k])}

EngineCalls == {"analyze_code_diff", "analyze_file_content"}

\* C32: a rejected unit is never passed to the Analysis Engine and has no
\* record in the report's file list, so the report of n units of which k are
\* rejected holds at most n - k files.
C32_RejectedUnitsLeftOut ==
    run.pc \in {"loop", "complete", "done"} =>
        /\ \A k \in RejectedNames :
              /\ \A c \in DOMAIN run.calls :
                    ~(run.calls[c][1] \in EngineCalls /\ run.calls[c][2] = k)
              /\ \A f \in DOMAIN run.acc.analyzed_files :
                    run.acc.analyzed_files[f].name # k
        /\ run.pc \in {"complete", "done"} =>
              /\ \A f \in DOMAIN run.report.files :
                    run.report.files[f].name \notin RejectedNames
              /\ Len(run.report.files)
                    <= Len(run.files) - Cardinality(RejectedNames)

\* C32 witness: a run over a rejected unit and an analysed one has returned
\* a report that holds the analysed one only.
C32_Witness ==
    /\ run.pc = "done"
    /\ Len(run.files) = 2
    /\ RejectedNames = {1}
    /\ Len(run.report.files) = 1
    /\ run.report.files[1].name = 2

\* the workflow has run its graph
GraphDone == workflow.pc \in {"format", "done"}

\* the stages whose chain raised, in the order of the pipeline
RECURSIVE FailedStages(_)
FailedStages(n) ==
    IF n = 0 THEN <<>>
    ELSE FailedStages(n - 1)
         \o (IF workflow.chain[n] = ChainRaises THEN <<workflow.ran[n]>>
             ELSE <<>>)

\* C33: an invocation of the workflow runs the five stages once each, in the
\* order initial, security, performance, quality, final_report, whether or
\* not earlier stages failed, a stage starting when its predecessor has
\* returned.
C33_FiveStagesInOrder ==
    workflow.pc # "none" =>
        /\ Len(workflow.ran) <= Len(Stages)
        /\ workflow.ran = SubSeq(Stages, 1, Len(workflow.ran))
        /\ workflow.pc = "graph" =>
              workflow.next = Stages[Len(workflow.ran) + 1]
        /\ GraphDone => workflow.ran = Stages

\* C33 witness: the five stages have run in order although the first two
\* failed.
C33_Witness ==
    /\ workflow.pc = "done"
    /\ workflow.ran = Stages
    /\ workflow.errors = <<"initial", "security">>

\* C34: whichever stages fail the pipeline runs to the final stage, and
\* afterwards every stage's output is non-null, the output of a failed
\* stage is its default payload (score 5 but for the initial analysis) and
\* the error list holds one entry per failed stage, in stage order.
C34_FailuresContained ==
    GraphDone =>
        /\ workflow.ran = Stages
        /\ \A s \in StageSet : workflow.state[s] # PyNone
        /\ \A k \in DOMAIN Stages :
              workflow.chain[k] = ChainRaises =>
                 /\ workflow.state[Stages[k]] = DefaultPayload(Stages[k])
                 /\ k > 1 => workflow.state[Stages[k]].score = 5
        /\ workflow.errors = FailedStages(Len(Stages))

\* the stages that run before `stage`
PriorStages(stage) ==
    {Stages[j] : j \in {i \in DOMAIN Stages :
                           \E k \in DOMAIN Stages : Stages[k] = stage /\ i < k}}

\* C35: the prompt of each stage holds the outputs of all the stages that
\* ran before it.
C35_PromptSeesPriorStages ==
    workflow.pc # "none" =>
        \A p \in DOMAIN workflow.prompts :
           LET prompt == workflow.prompts[p] IN
           /\ PriorStages(prompt.stage) \subseteq DOMAIN prompt.sees
           /\ \A s \in PriorStages(prompt.stage) :
                 prompt.sees[s] = workflow.state[s]

\* the stage of each element of the issue-like lists of the four analyses,
\* in stage order; a stage that failed or answered no object has none
RECURSIVE ElementStages(_)
ElementStages(n) ==
    IF n = 0 THEN <<>>
    ELSE LET out == workflow.state[Stages[n]] IN
         ElementStages(n - 1)
         \o [k \in 1..(Len(out.general_issues.list)
                        + Len(out.vulnerabilities.list)
                        + Len(out.bottlenecks.list)
                        + Len(out.issues.list)) |-> Stages[n]]

\* C36: the flattened issue list has one entry for each element of the
\* issue-like lists of the initial, security, performance and quality
\* outputs, in stage order, tagged with its stage, and none for a stage
\* that failed.
C36_FlattenedIssues ==
    workflow.pc = "done" =>
        [k \in DOMAIN workflow.result.issues |->
            workflow.result.issues[k].type] = ElementStages(4)

\* the content at `path` of the tree
RECURSIVE ContentAt(_, _, _)
ContentAt(tree, path, n) ==
    LET contents == get_contents(tree, SubSeq(path, 1, n - 1)) IN
    IF path[n] \notin DOMAIN contents THEN "missing"
    ELSE IF n = Len(path) THEN contents[path[n]]
    ELSE IF contents[path[n]] # "dir" THEN "missing"
    ELSE ContentAt(tree, path, n + 1)

\* the depth bound of the listing, in directories above a file
DepthBound == 5

\* C37: the repository listing returns at most max_files entries, each an
\* analyzable file of the tree and none from below the depth bound, no
\* directory deeper than the bound being descended; and it terminates.
C37_ListingBounded ==
    /\ [](listing.pc # "none" =>
            /\ Len(listing.files) <= listing.max_files
            /\ listing.file_count = Len(listing.files)
            /\ \A k \in DOMAIN listing.files :
                  /\ ContentAt(listing.tree, listing.files[k], 1) = "code"
                  /\ count_slashes(listing.files[k]) <= DepthBound
                  /\ \A j \in DOMAIN listing.files :
                        listing.files[j] = listing.files[k] => j = k
            /\ \A f \in DOMAIN listing.stack :
                  Len(listing.stack[f].path_prefix) <= DepthBound)
    /\ (listing.pc = "walk") ~> (listing.pc = "done")

\* C37 witness: the listing of a tree of more than 100 analyzable files,
\* nested deeper than the bound, has returned 100 files.
C37_Witness ==
    /\ listing.pc = "done"
    /\ listing.max_files = 100
    /\ Len(listing.files) = 100
    /\ listing.tree.depth > DepthBound

\* C38: chunk_text returns the whole text alone when it is no longer than
\* chunk_size, and otherwise only non-empty segments of at most chunk_size
\* characters, so that a chunk is never long enough to be chunked again
\* (checked of the calls with overlap < chunk_size).
C38_ChunkSegments ==
    (chunking.pc = "done" /\ chunking.overlap < chunking.chunk_size) =>
        /\ Len(chunking.text) <= chunking.chunk_size =>
              chunking.chunks = <<chunking.text>>
        /\ Len(chunking.text) > chunking.chunk_size =>
              \A k \in DOMAIN chunking.chunks :
                 /\ Len(chunking.chunks[k]) >= 1
                 /\ Len(chunking.chunks[k]) <= chunking.chunk_size

\* C40: in every state of the store, a record whose status is completed
\* has progress 100 and a record whose status is failed has progress 0,
\* also while several runs write the same record.
C40_TerminalProgress ==
    \A row \in tasks :
       /\ row.status = "completed" => row.progress = 100
       /\ row.status = "failed" => row.progress = 0

\* the record of the run is in processing / has reached a terminal status
RunProcessing == \E row \in tasks : row.id = run.id /\ row.status = "processing"

RunTerminal ==
    \E row \in tasks : row.id = run.id /\ row.status \in {"completed", "failed"}

\* C39: with a store that answers and calls that all return or raise, a
\* task that has been moved to processing eventually reaches completed or
\* failed.
C39_RunTerminates == RunProcessing ~> RunTerminal

====
